---- MODULE Spec2Model ----
(***************************************************************************)
(* Model of the LC29H RTK base station data plane:                         *)
(*   - RTCM3Parser (CRC24Q, validate_message)          rtcm_parser.py      *)
(*   - LC29HSerial._read_loop / _process_rtcm          gps_serial.py       *)
(*   - RTKBaseStation._handle_rtcm_data                base_station.py     *)
(*   - NTRIPServer / NTRIPClient                       ntrip_server.py     *)
(* Bytes are integers 0..255, byte strings and text are sequences of them. *)
(***************************************************************************)
EXTENDS Integers, Sequences, FiniteSets, TLC

(***************************************************************************)
(* Bounds of the model.                                                    *)
(***************************************************************************)
\* Longest device byte stream explored by the reader specification.
MaxStream == 14
\* Most single-byte reads (noise outside whole-frame reads) in one stream.
MaxNoise == 4
\* Connections the listener accepts in the fan-out specification.
MaxConns == 2
\* broadcast_rtcm calls made in the fan-out specification.
MaxFrames == 2
\* Pieces a byte string handed to the parser is put together from.
MaxFeed == 5
\* Iterations of the read loop that find no bytes waiting.
MaxIdle == 1
\* Reader workers a serial port object may create, and start_reading() and
\* stop_reading() calls made on it.
MaxWorkers == 2
MaxCalls == 4
\* Length of a long read from the device, and how many of them are made.
BlockLen == 600
MaxBlocks == 2

(***************************************************************************)
(* Program constants.                                                      *)
(***************************************************************************)
\* 0xD3, the RTCM3 preamble.
Preamble == 211
\* 0x1864CFB, the CRC24Q polynomial.
Crc24qPoly == 25578747
\* 0x1000000, bit 24, tested after every shift of the CRC accumulator.
Crc24qTop == 16777216
\* ord('$') and ord('\n'), the NMEA sentence delimiters of _read_loop.
Dollar == 36
Newline == 10

(***************************************************************************)
(* Integer bit operations (Python's ^ on non-negative ints).               *)
(***************************************************************************)
\* Evaluate x to a value, then apply F to it (TLC passes operator arguments
\* unevaluated; the loops below need their accumulators evaluated at every step).
Strict(F(_), x) == CHOOSE r \in {F(v) : v \in {x}} : TRUE

\* x ^ y on 4-bit operands, tabulated once.
RECURSIVE XorBits(_, _, _)
XorBits(a, b, n) ==
    IF n = 0 THEN 0 ELSE ((a + b) % 2) + 2 * XorBits(a \div 2, b \div 2, n - 1)

XorNibble == [x \in 0..15 |-> [y \in 0..15 |-> XorBits(x, y, 4)]]

\* a ^ b for 0 <= a, b < 2^28, nibble by nibble.
Xor(a, b) ==
      XorNibble[a % 16][b % 16]
    + 16 * XorNibble[(a \div 16) % 16][(b \div 16) % 16]
    + 256 * XorNibble[(a \div 256) % 16][(b \div 256) % 16]
    + 4096 * XorNibble[(a \div 4096) % 16][(b \div 4096) % 16]
    + 65536 * XorNibble[(a \div 65536) % 16][(b \div 65536) % 16]
    + 1048576 * XorNibble[(a \div 1048576) % 16][(b \div 1048576) % 16]
    + 16777216 * XorNibble[(a \div 16777216) % 16][(b \div 16777216) % 16]

\* data[lo..hi] with Python slice clamping (1-based, inclusive).
Slice(s, lo, hi) ==
    IF hi < lo THEN <<>> ELSE SubSeq(s, lo, IF hi > Len(s) THEN Len(s) ELSE hi)

(***************************************************************************)
(* RTCM3Parser                                                             *)
(***************************************************************************)
\* One iteration of the inner "for _ in range(8)" loop of _calc_crc24q.
\* Variant: the top-bit test looks at bit 23 of the shifted register.
Crc24qShiftBit23(crc) ==
    IF ((crc * 2) \div 8388608) % 2 = 1 THEN Xor(crc * 2, Crc24qPoly) ELSE crc * 2

Crc24qShift(crc) ==
    IF ((crc * 2) \div Crc24qTop) % 2 = 1 THEN Xor(crc * 2, Crc24qPoly) ELSE crc * 2

RECURSIVE Crc24qBits(_, _)
Crc24qBits(crc, n) ==
    IF n = 0 THEN crc ELSE Strict(LAMBDA c : Crc24qBits(c, n - 1), Crc24qShift(crc))

\* The outer "for byte in data" loop over data[lo..hi], accumulator threaded
\* through.  The bytes are taken in the loop's order; the range is halved only
\* so that the evaluation depth grows with the logarithm of the length.
RECURSIVE Crc24qLoop(_, _, _, _)
Crc24qLoop(crc, data, lo, hi) ==
    IF lo > hi THEN crc
    ELSE IF lo = hi THEN Crc24qBits(Xor(crc, data[lo] * 65536), 8)
    ELSE Strict(LAMBDA c : Crc24qLoop(c, data, (lo + hi) \div 2 + 1, hi),
                Crc24qLoop(crc, data, lo, (lo + hi) \div 2))

_calc_crc24q(data) == Crc24qLoop(0, data, 1, Len(data)) % Crc24qTop

_verify_crc24q(data) ==
    IF Len(data) < 6 THEN FALSE
    ELSE LET n == Len(data)
             msg_crc == data[n - 2] * 65536 + data[n - 1] * 256 + data[n]
         IN  msg_crc = _calc_crc24q(SubSeq(data, 1, n - 3))

\* msg_len = ((data[1] & 0x03) << 8) | data[2]   (0-based indices in the code)
\* Variant: the six reserved bits are read as part of the length.
MsgLenNoMask(data) == data[2] * 256 + data[3]

MsgLen(data) == (data[2] % 4) * 256 + data[3]

\* First component of validate_message's result tuple.
validate_message_nocrc(data) ==
    /\ Len(data) >= 6
    /\ data[1] = Preamble
    /\ Len(data) = MsgLen(data) + 6

validate_message(data) ==
    /\ Len(data) >= 6
    /\ data[1] = Preamble
    /\ Len(data) = MsgLen(data) + 6
    /\ _verify_crc24q(data)


(***************************************************************************)
(* Text: Python str and bytes as sequences of character codes.             *)
(***************************************************************************)
T_GET == <<71, 69, 84>>
T_POST == <<80, 79, 83, 84>>
T_HTTP11 == <<72, 84, 84, 80, 47, 49, 46, 49>>
T_BASE == <<66, 65, 83, 69>>
T_ALT == <<65, 76, 84>>
T_NOPE == <<78, 79, 80, 69>>
T_AUTHORIZATION == <<65, 117, 116, 104, 111, 114, 105, 122, 97, 116, 105, 111, 110, 58>>
T_BASIC == <<66, 97, 115, 105, 99, 32>>
T_DIGEST == <<68, 105, 103, 101, 115, 116, 32>>
T_HOST == <<72, 111, 115, 116, 58, 32, 120>>
T_U == <<117>>
T_V == <<118>>
T_P == <<112>>
T_Q == <<113>>
T_PX == <<112, 58, 120>>
SP == <<32>>
CRLF == <<13, 10>>
LF == <<10>>
SLASH == <<47>>
COLON == <<58>>

\* str.isspace() on ASCII.
IsSpace(ch) == ch \in {9, 10, 11, 12, 13, 28, 29, 30, 31, 32}

\* The k-th smallest element of a finite set of integers.
KthSmallest(P, k) == CHOOSE x \in P : Cardinality({y \in P : y < x}) = k - 1

\* s.startswith(prefix)
StartsWith(s, prefix) ==
    Len(s) >= Len(prefix) /\ SubSeq(s, 1, Len(prefix)) = prefix

\* s.split('\r\n'): the pieces between the separators, empty pieces kept.
SplitCrLf(s) ==
    LET seps == {i \in 1..(Len(s) - 1) : s[i] = 13 /\ s[i + 1] = 10}
        n == Cardinality(seps) + 1
    IN  [k \in 1..n |->
            SubSeq(s,
                   IF k = 1 THEN 1 ELSE KthSmallest(seps, k - 1) + 2,
                   IF k = n THEN Len(s) ELSE KthSmallest(seps, k) - 1)]

\* s.split(): the maximal runs of non-whitespace characters.
SplitSpace(s) ==
    LET starts == {i \in 1..Len(s) : ~IsSpace(s[i]) /\ (i = 1 \/ IsSpace(s[i - 1]))}
        ends == {i \in 1..Len(s) : ~IsSpace(s[i]) /\ (i = Len(s) \/ IsSpace(s[i + 1]))}
    IN  [k \in 1..Cardinality(starts) |->
            SubSeq(s, KthSmallest(starts, k), KthSmallest(ends, k))]

\* s.strip()
Strip(s) ==
    LET keep == {i \in 1..Len(s) : ~IsSpace(s[i])}
    IN  IF keep = {} THEN <<>>
        ELSE SubSeq(s, KthSmallest(keep, 1), KthSmallest(keep, Cardinality(keep)))

\* s.split(":", 1): <<head, tail>> at the first colon, <<s>> when there is none.
SplitColon(s) ==
    LET at == {i \in 1..Len(s) : s[i] = 58}
    IN  IF at = {} THEN <<s>>
        ELSE <<SubSeq(s, 1, KthSmallest(at, 1) - 1),
               SubSeq(s, KthSmallest(at, 1) + 1, Len(s))>>

(***************************************************************************)
(* base64.b64decode (binascii.a2b_base64, non-strict mode)                 *)
(***************************************************************************)
\* table_a2b_base64: the 6-bit value of a character, 64 for any other one.
B64Value(ch) ==
    IF ch >= 65 /\ ch <= 90 THEN ch - 65
    ELSE IF ch >= 97 /\ ch <= 122 THEN ch - 71
    ELSE IF ch >= 48 /\ ch <= 57 THEN ch + 4
    ELSE IF ch = 43 THEN 62
    ELSE IF ch = 47 THEN 63
    ELSE 64

\* One character of the decoding loop.
\* d = [quad, left, pads, out, done]: quad_pos, leftchar, pads, output, "goto done".
B64Step(d, ch) ==
    IF d.done THEN d
    ELSE IF ch = 61 THEN
        IF d.quad >= 2 /\ d.quad + d.pads + 1 >= 4
        THEN [d EXCEPT !.done = TRUE]
        ELSE IF d.quad >= 2 THEN [d EXCEPT !.pads = @ + 1] ELSE d
    ELSE IF B64Value(ch) >= 64 THEN d
    ELSE LET v == B64Value(ch)
         IN  IF d.quad = 0 THEN [d EXCEPT !.quad = 1, !.left = v, !.pads = 0]
             ELSE IF d.quad = 1 THEN
                 [d EXCEPT !.quad = 2, !.pads = 0, !.left = v % 16,
                           !.out = Append(@, d.left * 4 + v \div 16)]
             ELSE IF d.quad = 2 THEN
                 [d EXCEPT !.quad = 3, !.pads = 0, !.left = v % 4,
                           !.out = Append(@, d.left * 16 + v \div 4)]
             ELSE [d EXCEPT !.quad = 0, !.pads = 0, !.left = 0,
                            !.out = Append(@, d.left * 64 + v)]

RECURSIVE B64Loop(_, _, _)
B64Loop(d, enc, i) ==
    IF i > Len(enc) THEN d
    ELSE Strict(LAMBDA nx : B64Loop(nx, enc, i + 1), B64Step(d, enc[i]))

\* [ok |-> FALSE] when binascii.Error is raised, else the decoded bytes.
b64decode(enc) ==
    LET d == B64Loop([quad |-> 0, left |-> 0, pads |-> 0, out |-> <<>>, done |-> FALSE],
                     enc, 1)
    IN  IF d.done \/ d.quad = 0 THEN [ok |-> TRUE, bytes |-> d.out]
        ELSE [ok |-> FALSE, bytes |-> <<>>]

\* bytes.decode('utf-8') of decoded credentials: succeeds on ASCII.  (A byte
\* >= 0x80 either raises or yields a non-ASCII name, which no ASCII credential
\* table contains; _verify_auth returns False both ways.)
Utf8Ok(bytes) == \A i \in 1..Len(bytes) : bytes[i] < 128

(***************************************************************************)
(* NTRIPServer: responses.  A response is the sequence of its lines, each  *)
(* line (sent with a closing \r\n) the sequence of its ';'- or ' '-        *)
(* separated fields; <<>> is the blank line.                               *)
(***************************************************************************)
ServerLine == <<"Server: LC29H-NTRIP-Server/1.0">>

\* NTRIPServer._send_response(conn, code, message, extra_headers)
_send_response(code, message, extra_headers) ==
    << <<"HTTP/1.1", code, message>>, ServerLine >> \o extra_headers \o << <<>> >>

\* NTRIPServer.add_mountpoint(name): the dict entry stored under name, every
\* argument but name at its default.
MountpointInfo(name, auth_required) ==
    [name |-> name, identifier |-> name, format |-> "RTCM 3.3",
     format_details |-> "1005(10),1074(1),1084(1),1094(1),1124(1),1230(10)",
     carrier |-> "2", nav_system |-> "GPS+GLO+GAL+BDS", network |-> "FKA",
     country |-> "USA", lat |-> "0.00", lon |-> "0.00", nmea |-> "1",
     solution |-> "0", generator |-> "LC29H", compression |-> "none",
     authentication |-> IF auth_required THEN "B" ELSE "N",
     fee |-> "N", bitrate |-> "9600"]

\* The STR line of one mountpoint in _send_sourcetable.
StrLine(info) ==
    <<"STR", info.name, info.identifier, info.format, info.format_details,
      info.carrier, info.nav_system, info.network, info.country, info.lat, info.lon,
      info.nmea, info.solution, info.generator, info.compression,
      info.authentication, info.fee, info.bitrate>>

\* _send_sourcetable keeping only the STR line of the last mountpoint.
_send_sourcetable_last_only(mps) ==
    << <<"SOURCETABLE 200 OK">>, ServerLine, <<"Content-Type: text/plain">>,
       <<"Connection: close">>, <<>>,
       <<"CAS", "host", "port", "LC29H RTK Base", "LC29H", "0", "USA", "0.00", "0.00",
         "http://example.com">> >>
    \o (IF mps = <<>> THEN <<>> ELSE <<StrLine(mps[Len(mps)])>>)
    \o << <<"ENDSOURCETABLE">> >>

\* NTRIPServer._send_sourcetable: mps is self.mountpoints in insertion order.
_send_sourcetable(mps) ==
    << <<"SOURCETABLE 200 OK">>, ServerLine, <<"Content-Type: text/plain">>,
       <<"Connection: close">>, <<>>,
       <<"CAS", "host", "port", "LC29H RTK Base", "LC29H", "0", "USA", "0.00", "0.00",
         "http://example.com">> >>
    \o [k \in 1..Len(mps) |-> StrLine(mps[k])]
    \o << <<"ENDSOURCETABLE">> >>

(***************************************************************************)
(* NTRIPServer._verify_auth and the decision part of _handle_client        *)
(***************************************************************************)
\* _verify_auth looking the username up without comparing the password.
_verify_auth_username_only(auth_header, creds) ==
    IF ~StartsWith(auth_header, T_BASIC) THEN FALSE
    ELSE LET decoded == b64decode(SubSeq(auth_header, 7, Len(auth_header)))
         IN  IF ~decoded.ok \/ ~Utf8Ok(decoded.bytes) THEN FALSE
             ELSE LET parts == SplitColon(decoded.bytes)
                  IN  Len(parts) = 2 /\ \E cr \in creds : cr[1] = parts[1]

\* creds: self.credentials as a set of <<username, password>> pairs.
_verify_auth(auth_header, creds) ==
    IF ~StartsWith(auth_header, T_BASIC) THEN FALSE
    ELSE LET decoded == b64decode(SubSeq(auth_header, 7, Len(auth_header)))
         IN  IF ~decoded.ok \/ ~Utf8Ok(decoded.bytes) THEN FALSE
             ELSE LET parts == SplitColon(decoded.bytes)
                  IN  Len(parts) = 2 /\ <<parts[1], parts[2]>> \in creds

\* The "for line in lines" search: the stripped value of the first line that
\* starts with "Authorization:", None (here <<>>, equally falsy) without one.
AuthHeader(lines) ==
    LET hits == {k \in 1..Len(lines) : StartsWith(lines[k], T_AUTHORIZATION)}
    IN  IF hits = {} THEN <<>>
        ELSE Strip(SplitColon(lines[KthSmallest(hits, 1)])[2])

\* Variant: a connection is turned away without a response.
RejectSilently(resp) == [resp |-> <<>>, admit |-> FALSE, mountpoint |-> <<>>]

\* The outcome of a handler that sends resp, closes and returns.
Reject(resp) == [resp |-> resp, admit |-> FALSE, mountpoint |-> <<>>]

\* _handle_client with the credential check ahead of the mountpoint check.
_handle_client_auth_first(request, mps, auth_on, creds) ==
    IF request = <<>> THEN Reject(<<>>)
    ELSE
    LET lines == SplitCrLf(request)
        request_line == SplitSpace(lines[1])
    IN  IF Len(request_line) < 3 THEN Reject(_send_response("400", "Bad Request", <<>>))
        ELSE
        LET method == request_line[1]
            path == request_line[2]
        IN  IF method = T_GET /\ path = SLASH THEN Reject(_send_sourcetable(mps))
            ELSE IF method = T_GET /\ StartsWith(path, SLASH) THEN
                LET mountpoint == SubSeq(path, 2, Len(path))
                    auth_header == AuthHeader(lines)
                IN  IF auth_on /\ (auth_header = <<>> \/ ~_verify_auth(auth_header, creds))
                    THEN Reject(_send_response("401", "Unauthorized",
                                << <<"WWW-Authenticate: Basic realm=\"NTRIP\"">> >>))
                    ELSE IF \A k \in 1..Len(mps) : mps[k].name # mountpoint
                    THEN Reject(_send_response("404", "Mountpoint not found", <<>>))
                    ELSE [resp |-> _send_response("200", "OK",
                                      << <<"Content-Type: gnss/data">> >>),
                          admit |-> TRUE, mountpoint |-> mountpoint]
            ELSE Reject(_send_response("400", "Bad Request", <<>>))

\* _handle_client from the received request text to its outcome: the response
\* it sends, and whether (and under which mountpoint) it admits the client.
_handle_client(request, mps, auth_on, creds) ==
    IF request = <<>> THEN Reject(<<>>)
    ELSE
    LET lines == SplitCrLf(request)
        request_line == SplitSpace(lines[1])
    IN  IF Len(request_line) < 3 THEN Reject(_send_response("400", "Bad Request", <<>>))
        ELSE
        LET method == request_line[1]
            path == request_line[2]
        IN  IF method = T_GET /\ path = SLASH THEN Reject(_send_sourcetable(mps))
            ELSE IF method = T_GET /\ StartsWith(path, SLASH) THEN
                LET mountpoint == SubSeq(path, 2, Len(path))
                    auth_header == AuthHeader(lines)
                IN  IF \A k \in 1..Len(mps) : mps[k].name # mountpoint
                    THEN Reject(_send_response("404", "Mountpoint not found", <<>>))
                    ELSE IF auth_on /\ (auth_header = <<>> \/ ~_verify_auth(auth_header, creds))
                    THEN Reject(_send_response("401", "Unauthorized",
                                << <<"WWW-Authenticate: Basic realm=\"NTRIP\"">> >>))
                    ELSE [resp |-> _send_response("200", "OK",
                                      << <<"Content-Type: gnss/data">> >>),
                          admit |-> TRUE, mountpoint |-> mountpoint]
            ELSE Reject(_send_response("400", "Bad Request", <<>>))

(***************************************************************************)
(* Client requests.  A client's request is described by its parts and      *)
(* rendered to the text the handler receives.                              *)
(***************************************************************************)
\* base64 encoding (RFC 4648) of a byte string.
B64Char(v) ==
    IF v < 26 THEN 65 + v ELSE IF v < 52 THEN 71 + v ELSE IF v < 62 THEN v - 4
    ELSE IF v = 62 THEN 43 ELSE 47

B64Encode(bytes) ==
    LET n == Len(bytes)
        byte(i) == IF i <= n THEN bytes[i] ELSE 0
        group(g) == byte(3 * g + 1) * 65536 + byte(3 * g + 2) * 256 + byte(3 * g + 3)
    IN  [j \in 1..(4 * ((n + 2) \div 3)) |->
            LET g == (j - 1) \div 4
                pos == (j - 1) % 4
            IN  IF 3 * g + pos > n THEN 61
                ELSE B64Char((group(g) \div (64 ^ (3 - pos))) % 64)]

PathText(path) ==
    CASE path = "root" -> SLASH
      [] path = "base" -> SLASH \o T_BASE
      [] path = "alt" -> SLASH \o T_ALT
      [] path = "nope" -> SLASH \o T_NOPE
      [] path = "prefix" -> SLASH \o SubSeq(T_BASE, 1, 3)
      [] path = "noslash" -> T_BASE

\* The value of the Authorization header a client sends.
AuthText(auth) ==
    CASE auth.kind = "basic" -> T_BASIC \o B64Encode(auth.user \o COLON \o auth.pass)
      [] auth.kind = "nocolon" -> T_BASIC \o B64Encode(auth.user \o auth.pass)
      [] auth.kind = "truncated" ->
            T_BASIC \o SubSeq(B64Encode(auth.user \o COLON \o auth.pass), 1, 3)
      [] auth.kind = "digest" -> T_DIGEST \o B64Encode(auth.user \o COLON \o auth.pass)
      [] auth.kind = "empty" -> <<>>

Eol(r) == IF r.eol = "crlf" THEN CRLF ELSE LF

Render(r) ==
    (IF r.method = "GET" THEN T_GET ELSE T_POST) \o SP \o PathText(r.path)
    \o (IF r.version THEN SP \o T_HTTP11 ELSE <<>>) \o Eol(r)
    \o (IF r.host THEN T_HOST \o Eol(r) ELSE <<>>)
    \o (IF r.auth.kind = "none" THEN <<>>
        ELSE T_AUTHORIZATION \o SP \o AuthText(r.auth) \o Eol(r))
    \o (IF r.term THEN Eol(r) ELSE <<>>)

Users == {T_U, T_V}
Passwords == {T_P, T_Q, T_PX}

AuthForms ==
    {[kind |-> "none"], [kind |-> "empty"]}
    \cup [kind : {"basic"}, user : Users, pass : Passwords]
    \cup [kind : {"nocolon", "truncated", "digest"}, user : {T_U}, pass : {T_P}]

Paths == {"root", "base", "alt", "nope", "prefix", "noslash"}

\* GET requests with a full request line: every path, Authorization form and
\* line ending, with and without another header first.
GetRequests ==
    [method : {"GET"}, path : Paths, version : {TRUE}, eol : {"crlf", "lf"},
     host : BOOLEAN, auth : AuthForms, term : {TRUE}]

\* Requests that are not well-formed GETs: another method, a request line of
\* two tokens, a header block that is not closed.
OddRequests ==
    {r \in [method : {"GET", "POST"}, path : Paths, version : BOOLEAN, eol : {"crlf", "lf"},
            host : {FALSE}, term : BOOLEAN,
            auth : {[kind |-> "none"], [kind |-> "basic", user |-> T_U, pass |-> T_P]}] :
        r.method = "POST" \/ ~r.version \/ ~r.term}

AllRequests == GetRequests \cup OddRequests

\* The client sent nothing: recv returns b'' or times out.
NoRequest == [method |-> "none"]

(***************************************************************************)
(* State                                                                   *)
(***************************************************************************)
VARIABLES
    stream,        \* every byte the reader has read from the device, in order
    noise,         \* how many of the reads so far were single-byte reads
    rtcm_buffer,   \* _read_loop's local rtcm_buffer
    nmea_buffer,   \* _read_loop's local nmea_buffer
    ntrip,         \* RTKBaseStation.ntrip is not None
    dropped,       \* valid frames _handle_rtcm_data saw while ntrip was None
    stats,         \* RTKBaseStation.stats (rtcm_messages, bytes_broadcast)
    bcast_log      \* arguments of the broadcast_rtcm calls made so far, in order

readerVars == <<stream, noise, rtcm_buffer, nmea_buffer, ntrip, dropped, stats, bcast_log>>

VARIABLES
    running,       \* NTRIPServer.running
    listener,      \* NTRIPServer.server_socket: "none", "open" or "closed"
    apc,           \* the accept worker: "none", "accepting" or "exited"
    mountpoints,   \* NTRIPServer.mountpoints, in insertion order
    require_auth,  \* NTRIPServer.require_auth
    credentials,   \* NTRIPServer.credentials as <<username, password>> pairs
    clients,       \* NTRIPServer.clients: the registry, a list of connections
    clients_lock   \* NTRIPServer.clients_lock: "free" or the thread holding it

configVars == <<mountpoints, require_auth, credentials>>
serverVars == <<running, listener, apc, clients, clients_lock>>

VARIABLES
    hpc,           \* per connection, its _handle_client worker's position
    creq,          \* per connection, the request its client sent
    sock,          \* per connection, the server's socket: "none", "open", "closed"
    peer,          \* per connection, the client end: "open" or "gone"
    wire,          \* per connection, what the server has written to it, in order
    client_mp,     \* per connection, NTRIPClient.mountpoint once admitted
    joined         \* history, per connection: how many broadcasts had taken the
                   \* lock when the connection was registered, -1 before

connVars == <<hpc, creq, sock, peer, wire, client_mp, joined>>

VARIABLES
    emitted,       \* frames handed to broadcast_rtcm so far
    bpc,           \* per broadcast caller: "idle", "wait" (for the lock) or "send"
    bframe,        \* per broadcast caller, the frame of its call
    bidx,          \* per broadcast caller, its position in "for client in self.clients"
    bpart,         \* per broadcast caller, the next part of the frame sendall writes
    bdisc,         \* per broadcast caller, its disconnected_clients list
    failed,        \* connections on which a send_data call has returned False
    spc            \* the stop() caller: "idle", "clear", "listener" or "done"

castVars == <<emitted, bpc, bframe, bidx, bpart, bdisc, failed, spc>>

VARIABLES
    arrived,       \* every byte that has arrived for the RTCMMessageBuffer, in order
    junk,          \* how many of them arrived as single bytes outside a frame
    nfed,          \* how many of them add_data has been given so far
    buffer,        \* RTCMMessageBuffer.buffer
    messages,      \* RTCMMessageBuffer.messages
    got            \* what the get_messages calls so far have returned, in order

bufferVars == <<arrived, junk, nfed, buffer, messages, got>>

VARIABLES
    pdata,         \* the bytes handed to RTCM3Parser's static methods
    pfed,          \* how many pieces the bytes were put together from
    pchecked,      \* the two methods have been called on pdata as it stands
    pcrc,          \* what _calc_crc24q(pdata) returned
    pvalid         \* first component of what validate_message(pdata) returned

parserVars == <<pdata, pfed, pchecked, pcrc, pvalid>>

VARIABLES
    spos,          \* RTKBaseStation.start(): "idle", "connected", "reading", "ntrip",
                   \* "disconnect", "join", "true" or "false" (the value returned)
    serial_conn,   \* LC29HSerial.serial_conn: "none", "open" or "closed"
    gps_running,   \* LC29HSerial.running
    rpc,           \* the _read_loop worker: "none", "loop" or "exited"
    base_running,  \* RTKBaseStation.running
    hist           \* history: connections accepted when a read raised SerialException,
                   \* iterations that raised and iterations that dropped a candidate
                   \* so far, frames broadcast by the end of the last of each

stationVars == <<spos, serial_conn, gps_running, rpc, base_running, hist>>

VARIABLES
    gpc,           \* the caller of get_stats(): "idle" or "wait" (before the lock)
    snapshot       \* what get_stats() last returned

statsVars == <<gpc, snapshot>>

VARIABLES
    workers,       \* per thread start_reading() created, its _read_loop: "none",
                   \* "loop" (at the loop test), "busy" (in an iteration),
                   \* "exited" or "fatal" (left by the SerialException break)
    read_thread,   \* LC29HSerial.read_thread: the thread created last, 0 for None
    caller,        \* the thread calling start_reading/stop_reading: "idle" or "join"
    ncalls         \* start_reading() and stop_reading() calls made so far

threadVars == <<workers, read_thread, caller, ncalls>>

vars == <<readerVars, configVars, serverVars, connVars, castVars, bufferVars, parserVars,
          stationVars, threadVars, statsVars>>

\* Connections, by the order in which they may be accepted.
Conns == 1..MaxConns
\* Threads that call broadcast_rtcm: the reader worker, and a second reader
\* worker left alive by stop_reading's bounded join.
Broadcasters == {"reader", "reader2"}
\* What sendall writes for one frame, in the pieces the socket takes.
FrameParts == <<"head", "tail">>

(***************************************************************************)
(* Device input: what one serial_conn.read(in_waiting) can return.         *)
(***************************************************************************)
\* D3 00 00 47 EA 4B: the valid frame with an empty payload.
FrameEmpty == <<211, 0, 0, 71, 234, 75>>
\* D3 00 01 D3 E9 2B 84: a valid frame whose 1-byte payload is 0xD3.
FrameD3 == <<211, 0, 1, 211, 233, 43, 132>>
\* D3 00 01 00 0A 18 8D: a valid frame whose 1-byte payload is 0x00.
FrameZero == <<211, 0, 1, 0, 10, 24, 141>>
\* D3 00 00 47 EA 4A: FrameEmpty with its last CRC bit flipped.
FrameBadCrc == <<211, 0, 0, 71, 234, 74>>

NoiseBytes == {Preamble, 0, Dollar, Newline}
FrameReads == {FrameEmpty, FrameD3, FrameZero, FrameBadCrc}
Reads == {<<b>> : b \in NoiseBytes} \cup FrameReads

(***************************************************************************)
(* LC29HSerial._read_loop, one byte of the "for byte in data" loop.        *)
(* st = [rtcm |-> rtcm_buffer, nmea |-> nmea_buffer, calls |-> the byte    *)
(* strings handed to _process_rtcm so far in this read].                   *)
(***************************************************************************)
\* The loop body without its "RTCM message complete check": a candidate ends
\* only at the next 0xD3.
ReadByteNoComplete(st, byte) ==
    IF byte = Preamble THEN
        [st EXCEPT !.calls = IF st.rtcm # <<>> THEN Append(@, st.rtcm) ELSE @,
                   !.rtcm = <<byte>>]
    ELSE IF st.rtcm # <<>> THEN [st EXCEPT !.rtcm = Append(@, byte)]
    ELSE IF byte = Dollar THEN [st EXCEPT !.nmea = <<byte>>]
    ELSE IF st.nmea # <<>> THEN
        [st EXCEPT !.nmea = IF byte = Newline THEN <<>> ELSE Append(@, byte)]
    ELSE st

ReadByte(st, byte) ==
    IF byte = Preamble THEN
        [st EXCEPT !.calls = IF st.rtcm # <<>> THEN Append(@, st.rtcm) ELSE @,
                   !.rtcm = <<byte>>]
    ELSE IF st.rtcm # <<>> THEN
        LET buf == Append(st.rtcm, byte)
        IN  IF Len(buf) >= 3 /\ Len(buf) >= MsgLen(buf) + 6
            THEN [st EXCEPT !.calls = Append(@, Slice(buf, 1, MsgLen(buf) + 6)),
                            !.rtcm = <<>>]
            ELSE [st EXCEPT !.rtcm = buf]
    ELSE IF byte = Dollar THEN [st EXCEPT !.nmea = <<byte>>]
    ELSE IF st.nmea # <<>> THEN
        [st EXCEPT !.nmea = IF byte = Newline THEN <<>> ELSE Append(@, byte)]
    ELSE st

\* "for byte in data" over data[lo..hi], first to last; the range is halved
\* so that a long read is evaluated at a depth logarithmic in its length.
RECURSIVE ReadRange(_, _, _, _)
ReadRange(st, data, lo, hi) ==
    IF lo > hi THEN st
    ELSE IF lo = hi THEN ReadByte(st, data[lo])
    ELSE Strict(LAMBDA nx : ReadRange(nx, data, (lo + hi) \div 2 + 1, hi),
                ReadRange(st, data, lo, (lo + hi) \div 2))

ReadBytes(st, data, i) == ReadRange(st, data, i, Len(data))

\* LC29HSerial._process_rtcm: does the byte string reach rtcm_callback?
_process_rtcm(rtcm_data) == Len(rtcm_data) >= 6 /\ rtcm_data[1] = Preamble

(***************************************************************************)
(* RTKBaseStation._handle_rtcm_data applied to each callback invocation.   *)
(* b = [log |-> bcast_log, stats |-> stats, dropped |-> dropped].          *)
(***************************************************************************)
\* Variant: the counters are updated for every candidate, valid or not.
_handle_rtcm_data_count_all(b, rtcm_data) ==
    IF validate_message(rtcm_data) /\ ntrip THEN
        [b EXCEPT !.log = Append(@, rtcm_data),
                  !.stats.rtcm_messages = @ + 1,
                  !.stats.bytes_broadcast = @ + Len(rtcm_data)]
    ELSE [b EXCEPT !.stats.rtcm_messages = @ + 1,
                   !.stats.bytes_broadcast = @ + Len(rtcm_data)]

_handle_rtcm_data(b, rtcm_data) ==
    IF validate_message(rtcm_data) THEN
        IF ntrip THEN
            [b EXCEPT !.log = Append(@, rtcm_data),
                      !.stats.rtcm_messages = @ + 1,
                      !.stats.bytes_broadcast = @ + Len(rtcm_data)]
        ELSE [b EXCEPT !.dropped = @ + 1]
    ELSE b

RECURSIVE HandleCalls(_, _, _)
HandleCalls(b, calls, i) ==
    IF i > Len(calls) THEN b
    ELSE Strict(LAMBDA nx : HandleCalls(nx, calls, i + 1),
                IF _process_rtcm(calls[i]) THEN _handle_rtcm_data(b, calls[i]) ELSE b)

(***************************************************************************)
(* Actions                                                                 *)
(***************************************************************************)
\* RTCMMessageBuffer.__init__, nothing arrived yet.
BufferInit ==
    /\ arrived = <<>>
    /\ junk = 0
    /\ nfed = 0
    /\ buffer = <<>>
    /\ messages = <<>>
    /\ got = <<>>

\* No bytes handed to the parser yet.
ParserInit ==
    /\ pdata = <<>>
    /\ pfed = 0
    /\ pchecked = FALSE
    /\ pcrc = 0
    /\ pvalid = FALSE

\* No get_stats() call made yet.
StatsInit ==
    /\ gpc = "idle"
    /\ snapshot = [active_clients |-> 0, clients |-> <<>>]

\* RTKBaseStation.__init__ and LC29HSerial.__init__: nothing opened or started.
StationInit ==
    /\ spos = "idle"
    /\ serial_conn = "none"
    /\ gps_running = FALSE
    /\ rpc = "none"
    /\ base_running = FALSE
    /\ hist = [fatal_seen |-> -1, errors |-> 0, error_log |-> -1, bad |-> 0, bad_log |-> -1,
               idle |-> 0, written |-> <<>>]

\* Threads a serial port object may create.
Workers == 1..MaxWorkers

\* LC29HSerial.__init__: read_thread is None, nothing called yet.
ThreadInit ==
    /\ workers = [w \in Workers |-> "none"]
    /\ read_thread = 0
    /\ caller = "idle"
    /\ ncalls = 0

\* RTKBaseStation.__init__ and LC29HSerial._read_loop's fresh buffers.
ReaderInit ==
    /\ stream = <<>>
    /\ noise = 0
    /\ rtcm_buffer = <<>>
    /\ nmea_buffer = <<>>
    /\ dropped = 0
    /\ stats = [rtcm_messages |-> 0, bytes_broadcast |-> 0]
    /\ bcast_log = <<>>
    /\ BufferInit
    /\ ParserInit
    /\ StationInit
    /\ StatsInit
    /\ ThreadInit

\* NTRIPServer.__init__, no connection made yet, no thread in a call.
ServerInit ==
    /\ running = FALSE
    /\ listener = "none"
    /\ apc = "none"
    /\ clients = <<>>
    /\ clients_lock = "free"
    /\ hpc = [c \in Conns |-> "unborn"]
    /\ creq = [c \in Conns |-> NoRequest]
    /\ sock = [c \in Conns |-> "none"]
    /\ peer = [c \in Conns |-> "open"]
    /\ wire = [c \in Conns |-> <<>>]
    /\ client_mp = [c \in Conns |-> <<>>]
    /\ joined = [c \in Conns |-> -1]
    /\ emitted = 0
    /\ bpc = [t \in Broadcasters |-> "idle"]
    /\ bframe = [t \in Broadcasters |-> 0]
    /\ bidx = [t \in Broadcasters |-> 0]
    /\ bpart = [t \in Broadcasters |-> 0]
    /\ bdisc = [t \in Broadcasters |-> <<>>]
    /\ failed = {}
    /\ spc = "idle"

ConfigInit ==
    /\ mountpoints = <<>>
    /\ require_auth = FALSE
    /\ credentials = {}

Init == ReaderInit /\ ntrip = FALSE /\ ServerInit /\ ConfigInit

(***************************************************************************)
(* Reader actions                                                          *)
(***************************************************************************)
\* RTKBaseStation.start: self.ntrip = NTRIPServer(...), after gps.start_reading().
CreateNtrip ==
    /\ ~ntrip
    /\ ntrip' = TRUE
    /\ UNCHANGED <<stream, noise, rtcm_buffer, nmea_buffer, dropped, stats, bcast_log>>
    /\ UNCHANGED <<configVars, serverVars, connVars, castVars, bufferVars, parserVars, stationVars, threadVars, statsVars>>

\* The body of that iteration for the bytes data returned by read().
ReadOf(data) ==
        /\ LET st == ReadBytes([rtcm |-> rtcm_buffer, nmea |-> nmea_buffer, calls |-> <<>>],
                               data, 1)
               hb == HandleCalls([log |-> bcast_log, stats |-> stats, dropped |-> dropped],
                                 st.calls, 1)
           IN  /\ rtcm_buffer' = st.rtcm
               /\ nmea_buffer' = st.nmea
               /\ bcast_log' = hb.log
               /\ stats' = hb.stats
               /\ dropped' = hb.dropped
        /\ stream' = stream \o data
        /\ noise' = IF Len(data) = 1 THEN noise + 1 ELSE noise
        /\ UNCHANGED ntrip
        /\ UNCHANGED <<configVars, serverVars, connVars, castVars, bufferVars, parserVars, stationVars, threadVars, statsVars>>

\* One iteration of the while loop of _read_loop with in_waiting > 0.  No
\* connection exists in this specification, so each broadcast_rtcm call finds
\* an empty registry and only its argument is recorded.
ReadIteration ==
    \E data \in Reads :
        /\ Len(stream) + Len(data) <= MaxStream
        /\ Len(data) = 1 => noise < MaxNoise
        /\ ReadOf(data)

Next == CreateNtrip \/ ReadIteration

Spec == Init /\ [][Next]_vars

\* A long read: BlockLen bytes, none of them 0xD3, "$" or "\n".
ZeroBlock == [k \in 1..BlockLen |-> 0]
LongReads == {<<Dollar>>, <<Newline>>, ZeroBlock}

\* One iteration of _read_loop whose read returns a single byte or a long
\* run of bytes.
LongReadIteration ==
    \E data \in LongReads :
        /\ IF Len(data) = 1 THEN noise < MaxNoise
           ELSE Len(stream) - noise < BlockLen * MaxBlocks
        /\ ReadOf(data)

LongNext == CreateNtrip \/ LongReadIteration

\* The reader fed long reads.
LongReadSpec == Init /\ [][LongNext]_vars

(***************************************************************************)
(* NTRIPServer actions                                                     *)
(***************************************************************************)
\* set_authentication storing the pair without switching require_auth on.
SetAuthenticationNoSwitch(username, password) ==
    /\ listener = "none"
    /\ require_auth' = require_auth
    /\ credentials' = {cr \in credentials : cr[1] # username} \cup {<<username, password>>}
    /\ UNCHANGED <<mountpoints, readerVars, bufferVars, parserVars, stationVars, threadVars, statsVars, serverVars, connVars, castVars>>

\* NTRIPServer.set_authentication(username, password)
SetAuthentication(username, password) ==
    /\ listener = "none"
    /\ require_auth' = TRUE
    /\ credentials' = {cr \in credentials : cr[1] # username} \cup {<<username, password>>}
    /\ UNCHANGED <<mountpoints, readerVars, bufferVars, parserVars, stationVars, threadVars, statsVars, serverVars, connVars, castVars>>

\* NTRIPServer.add_mountpoint(name): a dict store, which keeps the position of
\* a name already present.
AddMountpoint(name) ==
    /\ listener = "none"
    /\ mountpoints' =
         IF \E k \in 1..Len(mountpoints) : mountpoints[k].name = name
         THEN [k \in 1..Len(mountpoints) |->
                 IF mountpoints[k].name = name THEN MountpointInfo(name, require_auth)
                 ELSE mountpoints[k]]
         ELSE Append(mountpoints, MountpointInfo(name, require_auth))
    /\ UNCHANGED <<require_auth, credentials, readerVars, bufferVars, parserVars, stationVars, threadVars, statsVars, serverVars, connVars, castVars>>

\* NTRIPServer.start, the bind succeeding: listen, running = True, accept worker.
Start ==
    /\ listener = "none"
    /\ listener' = "open"
    /\ running' = TRUE
    /\ apc' = "accepting"
    /\ UNCHANGED <<clients, clients_lock, readerVars, bufferVars, parserVars, stationVars, threadVars, statsVars, configVars, connVars, castVars>>

\* _accept_clients: accept() returns connection c and its handler is started.
Accept(c) ==
    /\ apc = "accepting"
    /\ listener = "open"
    /\ hpc[c] = "unborn"
    /\ \A d \in Conns : d < c => hpc[d] # "unborn"
    /\ hpc' = [hpc EXCEPT ![c] = "recv"]
    /\ sock' = [sock EXCEPT ![c] = "open"]
    /\ UNCHANGED <<creq, peer, wire, client_mp, joined, readerVars, bufferVars, parserVars, stationVars, threadVars, statsVars, configVars, serverVars, castVars>>

\* _accept_clients: the loop test finds running False, the worker returns.
AcceptExit ==
    /\ apc = "accepting"
    /\ ~running
    /\ apc' = "exited"
    /\ UNCHANGED <<running, listener, clients, clients_lock, readerVars, bufferVars, parserVars, stationVars, threadVars, statsVars, configVars,
                   connVars, castVars>>

\* The client end of c closes, resets or stops reading: every later send on
\* the connection fails.
PeerGone(c) ==
    /\ sock[c] = "open"
    /\ peer[c] = "open"
    /\ peer' = [peer EXCEPT ![c] = "gone"]
    /\ UNCHANGED <<hpc, creq, sock, wire, client_mp, joined, readerVars, bufferVars, parserVars, stationVars, threadVars, statsVars, configVars, serverVars,
                   castVars>>

\* Variant: the handler sends no response.
WrittenNothing(c, resp) == wire[c]

\* conn.sendall(text) in _send_response and _send_sourcetable; a failure is
\* swallowed (except: pass / logged).
Written(c, resp) ==
    IF peer[c] = "open" /\ resp # <<>>
    THEN Append(wire[c], [kind |-> "response", lines |-> resp])
    ELSE wire[c]

\* _handle_client up to its return or to the registration of the client: the
\* request r arrives (or recv returns nothing or times out), the response is
\* sent, a rejected connection is closed.
HandleClient(c, requests) ==
    /\ hpc[c] = "recv"
    /\ \E r \in requests \cup {NoRequest} :
        LET request == IF r = NoRequest THEN <<>> ELSE Render(r)
            out == _handle_client(request, mountpoints, require_auth, credentials)
        IN  /\ creq' = [creq EXCEPT ![c] = r]
            /\ wire' = [wire EXCEPT ![c] = Written(c, out.resp)]
            /\ hpc' = [hpc EXCEPT ![c] = IF out.admit THEN "admit" ELSE "done"]
            /\ sock' = [sock EXCEPT ![c] = IF out.admit THEN "open" ELSE "closed"]
            /\ client_mp' = [client_mp EXCEPT ![c] = out.mountpoint]
    /\ UNCHANGED <<peer, joined, readerVars, bufferVars, parserVars, stationVars, threadVars, statsVars, configVars, serverVars, castVars>>

\* The broadcast_rtcm calls that have taken the lock so far.
Started == emitted - Cardinality({t \in Broadcasters : bpc[t] = "wait"})

\* Variant: the handler appends without taking the lock.
RegisterLockNone == TRUE

\* May a handler enter "with self.clients_lock"?
RegisterLock == clients_lock = "free"

\* with self.clients_lock: self.clients.append(client)
Register(c) ==
    /\ hpc[c] = "admit"
    /\ RegisterLock
    /\ clients' = Append(clients, c)
    /\ hpc' = [hpc EXCEPT ![c] = "done"]
    /\ joined' = [joined EXCEPT ![c] = Started]
    /\ UNCHANGED <<running, listener, apc, clients_lock, creq, sock, peer, wire, client_mp,
                   readerVars, bufferVars, parserVars, stationVars, threadVars, statsVars, configVars, castVars>>

\* _handle_rtcm_data calls self.ntrip.broadcast_rtcm(rtcm_data) on thread t
\* with the next valid frame.
BroadcastCall(t) ==
    /\ bpc[t] = "idle"
    /\ emitted < MaxFrames
    /\ emitted' = emitted + 1
    /\ bframe' = [bframe EXCEPT ![t] = emitted + 1]
    /\ bpc' = [bpc EXCEPT ![t] = "wait"]
    /\ UNCHANGED <<bidx, bpart, bdisc, failed, spc, readerVars, bufferVars, parserVars, stationVars, threadVars, statsVars, configVars, serverVars,
                   connVars>>

\* "with self.clients_lock" left out of broadcast_rtcm.
CanAcquireUnlocked(t) == TRUE

\* May thread t enter "with self.clients_lock"?
CanAcquire(t) == clients_lock = "free"

\* broadcast_rtcm: disconnected_clients = [], the lock is taken.
BroadcastLock(t) ==
    /\ bpc[t] = "wait"
    /\ CanAcquire(t)
    /\ clients_lock' = t
    /\ bpc' = [bpc EXCEPT ![t] = "send"]
    /\ bidx' = [bidx EXCEPT ![t] = 1]
    /\ bpart' = [bpart EXCEPT ![t] = 1]
    /\ bdisc' = [bdisc EXCEPT ![t] = <<>>]
    /\ UNCHANGED <<emitted, bframe, failed, spc, running, listener, apc, clients,
                   readerVars, bufferVars, parserVars, stationVars, threadVars, statsVars, configVars, connVars>>

\* The filter applied with the station's own mountpoint name in place of the
\* argument.
SkippedOffBase(c, mp) == client_mp[c] # T_BASE

\* "if mountpoint and client.mountpoint != mountpoint: continue", for the
\* mountpoint argument mp of the call (<<>> is None).
Skipped(c, mp) == mp # <<>> /\ client_mp[c] # mp

\* _handle_rtcm_data passing a mountpoint no subscriber is on.
BroadcastMountpointOther == T_ALT

\* The mountpoint argument _handle_rtcm_data passes: none.
BroadcastMountpoint == <<>>

\* The loop left at the first failed send ("break").
AfterFailureBreak(i, n) == n + 1

\* After a failed send to the client at position i, where the loop goes on.
AfterFailure(i, n) == i + 1

\* broadcast_rtcm, one step of "for client in self.clients" under the lock:
\* client.send_data(rtcm_data) writes the next part of the frame, or sendall
\* raises (the client is gone, the socket is closed, or the 10 s timeout the
\* handler set on the socket expires) and the client is appended to
\* disconnected_clients.
BroadcastSend(t) ==
    /\ bpc[t] = "send"
    /\ bidx[t] <= Len(clients)
    /\ LET c == clients[bidx[t]]
       IN  IF Skipped(c, BroadcastMountpoint) THEN
               /\ bidx' = [bidx EXCEPT ![t] = @ + 1]
               /\ UNCHANGED <<wire, bpart, bdisc, failed>>
           ELSE \E sent \in BOOLEAN :
               /\ sent => (peer[c] = "open" /\ sock[c] = "open")
               /\ IF sent THEN
                      /\ wire' = [wire EXCEPT ![c] =
                            Append(@, [kind |-> "rtcm", f |-> bframe[t], by |-> t,
                                       part |-> bpart[t]])]
                      /\ IF bpart[t] = Len(FrameParts)
                         THEN /\ bidx' = [bidx EXCEPT ![t] = @ + 1]
                              /\ bpart' = [bpart EXCEPT ![t] = 1]
                         ELSE /\ bpart' = [bpart EXCEPT ![t] = @ + 1]
                              /\ UNCHANGED bidx
                      /\ UNCHANGED <<bdisc, failed>>
                  ELSE
                      /\ bdisc' = [bdisc EXCEPT ![t] = Append(@, c)]
                      /\ failed' = failed \cup {c}
                      /\ bidx' = [bidx EXCEPT ![t] = AfterFailure(@, Len(clients))]
                      /\ bpart' = [bpart EXCEPT ![t] = 1]
                      /\ UNCHANGED wire
    /\ UNCHANGED <<emitted, bpc, bframe, spc, hpc, creq, sock, peer, client_mp, joined,
                   readerVars, bufferVars, parserVars, stationVars, threadVars, statsVars, configVars, serverVars>>

\* The removal of the disconnected clients left out.
RemainingAll(cl, disc) == cl

\* self.clients after "for client in disconnected_clients: self.clients.remove(client)".
Remaining(cl, disc) == SelectSeq(cl, LAMBDA c : \A k \in 1..Len(disc) : disc[k] # c)

\* Variant: the connections of the listed clients are left as they are.
CloseNone(list) == sock

\* NTRIPClient.close() for every client of the list: conn.close(), errors
\* ignored.
CloseEach(list) ==
    [c \in Conns |->
        IF \E k \in 1..Len(list) : list[k] = c THEN "closed" ELSE sock[c]]

\* broadcast_rtcm, after the loop: the disconnected clients are removed and
\* closed, the lock is released, the call returns.
BroadcastFinish(t) ==
    /\ bpc[t] = "send"
    /\ bidx[t] > Len(clients)
    /\ clients' = Remaining(clients, bdisc[t])
    /\ sock' = CloseEach(bdisc[t])
    /\ clients_lock' = IF clients_lock = t THEN "free" ELSE clients_lock
    /\ bpc' = [bpc EXCEPT ![t] = "idle"]
    /\ bdisc' = [bdisc EXCEPT ![t] = <<>>]
    /\ UNCHANGED <<emitted, bframe, bidx, bpart, failed, spc, running, listener, apc,
                   hpc, creq, peer, wire, client_mp, joined, readerVars, bufferVars, parserVars, stationVars, threadVars, statsVars, configVars>>

\* NTRIPServer.stop: self.running = False
StopBegin ==
    /\ spc = "idle"
    /\ listener # "none"
    /\ running' = FALSE
    /\ spc' = "clear"
    /\ UNCHANGED <<listener, apc, clients, clients_lock, emitted, bpc, bframe, bidx, bpart,
                   bdisc, failed, readerVars, bufferVars, parserVars, stationVars, threadVars, statsVars, configVars, connVars>>

\* Variant: stop() closes and clears without taking the lock.
StopLockNone == TRUE

\* May stop() enter "with self.clients_lock"?
StopLock == clients_lock = "free"

\* NTRIPServer.stop: under the lock, every client is closed and the list cleared.
StopClear ==
    /\ spc = "clear"
    /\ StopLock
    /\ sock' = CloseEach(clients)
    /\ clients' = <<>>
    /\ spc' = "listener"
    /\ UNCHANGED <<running, listener, apc, clients_lock, emitted, bpc, bframe, bidx, bpart,
                   bdisc, failed, hpc, creq, peer, wire, client_mp, joined, readerVars, bufferVars, parserVars, stationVars, threadVars, statsVars, configVars>>

\* NTRIPServer.stop: self.server_socket.close()
StopListener ==
    /\ spc = "listener"
    /\ listener' = "closed"
    /\ spc' = "done"
    /\ UNCHANGED <<running, apc, clients, clients_lock, emitted, bpc, bframe, bidx, bpart,
                   bdisc, failed, readerVars, bufferVars, parserVars, stationVars, threadVars, statsVars, configVars, connVars>>

(***************************************************************************)
(* RTCMMessageBuffer.  b = [buffer |-> self.buffer, messages |->           *)
(* self.messages].                                                         *)
(***************************************************************************)
\* A search for the preamble that looks at the first byte only.
findFirstOnly(buf) == IF buf # <<>> /\ buf[1] = Preamble THEN 1 ELSE 0

\* self.buffer.find(0xD3), counted from 1; 0 for Python's -1.
find(buf) ==
    LET hits == {k \in 1..Len(buf) : buf[k] = Preamble}
    IN  IF hits = {} THEN 0 ELSE CHOOSE k \in hits : \A h \in hits : k <= h

\* One pass of the body of the while loop: done is TRUE when the pass ends in
\* "return" or the loop test fails.
ExtractPass(b) ==
    IF Len(b.buffer) < 6 THEN [b |-> b, done |-> TRUE]
    ELSE
    LET preamble_idx == find(b.buffer)
    IN  IF preamble_idx = 0 THEN [b |-> [b EXCEPT !.buffer = <<>>], done |-> TRUE]
        ELSE
        LET buf == SubSeq(b.buffer, preamble_idx, Len(b.buffer))
            total_len == MsgLen(buf) + 6
        IN  IF Len(buf) < 3 \/ Len(buf) < total_len
            THEN [b |-> [b EXCEPT !.buffer = buf], done |-> TRUE]
            ELSE
            LET msg_data == SubSeq(buf, 1, total_len)
            IN  [b |-> [buffer |-> SubSeq(buf, total_len + 1, Len(buf)),
                        messages |-> IF validate_message(msg_data)
                                     THEN Append(b.messages, msg_data)
                                     ELSE b.messages],
                 done |-> FALSE]

\* _extract_messages with "if" in place of "while": one candidate per call.
_extract_messages_once(b) == ExtractPass(b).b

\* RTCMMessageBuffer._extract_messages
RECURSIVE _extract_messages(_)
_extract_messages(b) ==
    Strict(LAMBDA pass : IF pass.done THEN pass.b ELSE _extract_messages(pass.b),
           ExtractPass(b))

\* RTCMMessageBuffer.add_data(data)
add_data(b, data) == _extract_messages([b EXCEPT !.buffer = @ \o data])

\* What arrives for the buffer in one piece: a byte outside a frame (a
\* preamble, a zero, a character of text) or a frame, its CRC good or bad.
Arrivals == {<<Preamble>>, <<0>>, <<Dollar>>} \cup FrameReads

Arrive ==
    \E data \in Arrivals :
        /\ Len(arrived) + Len(data) <= MaxStream
        /\ Len(data) = 1 => junk < MaxNoise
        /\ arrived' = arrived \o data
        /\ junk' = IF Len(data) = 1 THEN junk + 1 ELSE junk
        /\ UNCHANGED <<nfed, buffer, messages, got>>
        /\ UNCHANGED <<readerVars, configVars, serverVars, connVars, castVars, parserVars, stationVars, threadVars, statsVars>>

\* add_data is called with the next k bytes that have arrived.
AddData ==
    \E k \in 1..(Len(arrived) - nfed) :
        \E b \in {add_data([buffer |-> buffer, messages |-> messages],
                           SubSeq(arrived, nfed + 1, nfed + k))} :
            /\ buffer' = b.buffer
            /\ messages' = b.messages
            /\ nfed' = nfed + k
            /\ UNCHANGED <<arrived, junk, got>>
            /\ UNCHANGED <<readerVars, configVars, serverVars, connVars, castVars, parserVars, stationVars, threadVars, statsVars>>

\* RTCMMessageBuffer.get_messages()
GetMessages ==
    /\ messages # <<>>
    /\ got' = got \o messages
    /\ messages' = <<>>
    /\ UNCHANGED <<arrived, junk, nfed, buffer>>
    /\ UNCHANGED <<readerVars, configVars, serverVars, connVars, castVars, parserVars, stationVars, threadVars, statsVars>>

BufferNext == Arrive \/ AddData \/ GetMessages

\* The buffer fed any bytes in any chunking.  No server is involved.
BufferSpec == Init /\ [][BufferNext]_vars

(***************************************************************************)
(* Specifications                                                          *)
(***************************************************************************)
MountpointNames == {T_BASE, T_ALT}

\* One connection, any request, any configuration made before start().
HandlerInit == ReaderInit /\ ntrip = TRUE /\ ServerInit /\ ConfigInit

HandlerNext ==
    \/ \E u \in Users, pw \in {T_P, T_PX} : SetAuthentication(u, pw)
    \/ \E name \in MountpointNames : AddMountpoint(name)
    \/ Start
    \/ Accept(1)
    \/ PeerGone(1)
    \/ HandleClient(1, AllRequests)
    \/ Register(1)

HandlerSpec == HandlerInit /\ [][HandlerNext]_vars

\* The requests of the fan-out specifications: one that is admitted, one that
\* is turned away.
FanoutRequests ==
    {r \in GetRequests : /\ r.path \in {"base", "nope"}
                         /\ r.eol = "crlf" /\ ~r.host /\ r.auth.kind = "none"}

\* The server configured as by RTKBaseStation.start without authentication:
\* one mountpoint.
FanoutInit ==
    /\ ReaderInit /\ ntrip = TRUE /\ ServerInit
    /\ mountpoints = <<MountpointInfo(T_BASE, FALSE)>>
    /\ require_auth = FALSE
    /\ credentials = {}

Stop == StopBegin \/ StopClear \/ StopListener

Broadcast(t) ==
    BroadcastCall(t) \/ BroadcastLock(t) \/ BroadcastSend(t) \/ BroadcastFinish(t)

Session(c) == Accept(c) \/ PeerGone(c) \/ HandleClient(c, FanoutRequests) \/ Register(c)

\* Fan-out as the program runs it while it serves: the reader thread is the
\* one caller of broadcast_rtcm, with any number of connections alongside.
FanoutNext ==
    \/ Start
    \/ \E c \in Conns : Session(c)
    \/ Broadcast("reader")

FanoutSpec == FanoutInit /\ [][FanoutNext]_vars

\* The same with every thread of the program scheduled fairly: a broadcast
\* that has been called runs to its end, the accept worker and the handler
\* workers take their next step.  What the device delivers and what the
\* clients do is up to them.
FanoutFairness ==
    /\ WF_vars(BroadcastLock("reader"))
    /\ WF_vars(BroadcastSend("reader"))
    /\ WF_vars(BroadcastFinish("reader"))
    /\ \A c \in Conns : WF_vars(Register(c))

FairFanoutSpec == FanoutSpec /\ FanoutFairness

\* broadcast_rtcm as a public method called from several threads at once,
\* with one connection and stop() alongside.
ConcurrentNext ==
    \/ Start
    \/ AcceptExit
    \/ Session(1)
    \/ \E t \in Broadcasters : Broadcast(t)
    \/ Stop

ConcurrentSpec == FanoutInit /\ [][ConcurrentNext]_vars

\* get_stats() is called by the station's status loop or the web interface.
GetStatsCall ==
    /\ gpc = "idle"
    /\ listener = "open"
    /\ gpc' = "wait"
    /\ UNCHANGED <<snapshot, readerVars, bufferVars, parserVars, stationVars, threadVars, configVars,
                   serverVars, connVars, castVars>>

\* get_stats: "with self.clients_lock: return {...}", the lock taken, the
\* list read and the lock released.
GetStatsReturn ==
    /\ gpc = "wait"
    /\ clients_lock = "free"
    /\ snapshot' = [active_clients |-> Len(clients),
                    clients |-> [k \in 1..Len(clients) |->
                                    [conn |-> clients[k],
                                     mountpoint |-> client_mp[clients[k]]]]]
    /\ gpc' = "idle"
    /\ UNCHANGED <<readerVars, bufferVars, parserVars, stationVars, threadVars, configVars,
                   serverVars, connVars, castVars>>

GetStats == GetStatsCall \/ GetStatsReturn

\* Fan-out to one connection with a reader of the statistics alongside.
StatsNext ==
    \/ Start
    \/ Session(1)
    \/ Broadcast("reader")
    \/ GetStats

StatsSpec == FanoutInit /\ [][StatsNext]_vars

\* Requests for either of two mountpoints.
MountpointRequests ==
    {r \in GetRequests : /\ r.path \in {"base", "alt"}
                         /\ r.eol = "crlf" /\ ~r.host /\ r.auth.kind = "none"}

\* A server given two mountpoints by add_mountpoint, without authentication.
MountpointsInit ==
    /\ ReaderInit /\ ntrip = TRUE /\ ServerInit
    /\ mountpoints = <<MountpointInfo(T_BASE, FALSE), MountpointInfo(T_ALT, FALSE)>>
    /\ require_auth = FALSE
    /\ credentials = {}

\* Fan-out to subscribers admitted on different mountpoints.
MountpointsNext ==
    \/ Start
    \/ \E c \in Conns : Accept(c) \/ HandleClient(c, MountpointRequests) \/ Register(c)
    \/ Broadcast("reader")

MountpointsSpec == MountpointsInit /\ [][MountpointsNext]_vars

(***************************************************************************)
(* Reference definitions used by the properties (RTCM 10403 framing).      *)
(***************************************************************************)
\* CRC24Q in its table-driven form: RefCrcTable[b] is the remainder of
\* b * x^24 modulo the generator polynomial, and each message byte folds the
\* top byte of the remainder through the table.
RefReduce(r) == IF r >= Crc24qTop THEN Xor(r, Crc24qPoly) ELSE r

RefCrcTable ==
    [b \in 0..255 |->
        RefReduce(2 * RefReduce(2 * RefReduce(2 * RefReduce(2 * RefReduce(2 *
        RefReduce(2 * RefReduce(2 * RefReduce(2 * (b * 65536)))))))))]

RECURSIVE RefCrcFold(_, _, _, _)
RefCrcFold(rem, data, lo, hi) ==
    IF lo > hi THEN rem
    ELSE IF lo = hi
    THEN Xor((rem % 65536) * 256, RefCrcTable[Xor(rem \div 65536, data[lo])])
    ELSE Strict(LAMBDA r : RefCrcFold(r, data, (lo + hi) \div 2 + 1, hi),
                RefCrcFold(rem, data, lo, (lo + hi) \div 2))

RefCrc24q(data) == RefCrcFold(0, data, 1, Len(data))

\* payload_len: low 2 bits of byte 1 and byte 2 (bytes counted from 0).
RefPayloadLen(f) == (f[2] % 4) * 256 + f[3]

\* A valid RTCM3 frame: preamble, exact length, CRC trailer over all preceding bytes.
RefValidFrame(f) ==
    /\ Len(f) >= 6
    /\ f[1] = Preamble
    /\ Len(f) = RefPayloadLen(f) + 6
    /\ f[Len(f) - 2] * 65536 + f[Len(f) - 1] * 256 + f[Len(f)]
         = RefCrc24q(SubSeq(f, 1, Len(f) - 3))

\* Left-to-right scan of S from position i for non-overlapping valid frames,
\* leftmost first. pending: the scan met a preamble whose candidate frame runs
\* past the end of S (a framer still waiting for bytes).
RECURSIVE RefScan(_, _, _)
RefScan(S, i, acc) ==
    IF i > Len(S) THEN acc
    ELSE IF S[i] # Preamble THEN RefScan(S, i + 1, acc)
    ELSE IF i + 2 > Len(S) \/ i + RefPayloadLen(SubSeq(S, i, i + 2)) + 5 > Len(S)
         THEN RefScan(S, i + 1, [acc EXCEPT !.pending = TRUE])
    ELSE LET f == SubSeq(S, i, i + RefPayloadLen(SubSeq(S, i, i + 2)) + 5)
         IN  IF RefValidFrame(f)
             THEN RefScan(S, i + Len(f), [acc EXCEPT !.frames = Append(@, f)])
             ELSE RefScan(S, i + 1, acc)

RefFrames(S) == RefScan(S, 1, [frames |-> <<>>, pending |-> FALSE])

(***************************************************************************)
(* RTCM3Parser called on its own: byte strings put together from single    *)
(* bytes, a payload of the length a 3-byte header declares, and the        *)
(* trailer a correct encoder would append.                                 *)
(***************************************************************************)
\* 0xFF sets all six reserved bits of the second header byte.
ParserBytes == {0, 1, Preamble, 255}

PayloadBlock(n) == [k \in 1..n |-> (k * 7) % 256]

Trailer(d) ==
    LET c == RefCrc24q(d)
    IN  <<c \div 65536, (c \div 256) % 256, c % 256>>

Pieces ==
    {<<b>> : b \in ParserBytes}
    \cup {Trailer(pdata)}
    \cup (IF Len(pdata) = 3 /\ pdata[1] = Preamble /\ RefPayloadLen(pdata) >= 1
          THEN {PayloadBlock(RefPayloadLen(pdata))} ELSE {})

Feed ==
    \E piece \in Pieces :
        /\ pfed < MaxFeed
        /\ pdata' = pdata \o piece
        /\ pfed' = pfed + 1
        /\ pchecked' = FALSE
        /\ pcrc' = 0
        /\ pvalid' = FALSE
        /\ UNCHANGED <<readerVars, configVars, serverVars, connVars, castVars, bufferVars, stationVars, threadVars, statsVars>>

\* RTCM3Parser._calc_crc24q(data) and RTCM3Parser.validate_message(data)
ParserCall ==
    /\ ~pchecked
    /\ pchecked' = TRUE
    /\ pcrc' = _calc_crc24q(pdata)
    /\ pvalid' = validate_message(pdata)
    /\ UNCHANGED <<pdata, pfed>>
    /\ UNCHANGED <<readerVars, configVars, serverVars, connVars, castVars, bufferVars, stationVars, threadVars, statsVars>>

ParserNext == Feed \/ ParserCall

ParserSpec == Init /\ [][ParserNext]_vars

(***************************************************************************)
(* RTKBaseStation.start with the serial reader and the caster side by side *)
(***************************************************************************)
otherStationVars ==
    <<stream, noise, rtcm_buffer, nmea_buffer, dropped, stats, bcast_log, ntrip,
      configVars, serverVars, connVars, castVars, bufferVars, parserVars, statsVars,
      threadVars>>

\* RTKBaseStation.start: self.gps.connect(); False is returned if it fails.
Connect ==
    /\ spos = "idle"
    /\ \E opened \in BOOLEAN :
        /\ serial_conn' = IF opened THEN "open" ELSE "none"
        /\ spos' = IF opened THEN "connected" ELSE "false"
    /\ UNCHANGED <<gps_running, rpc, base_running, hist>>
    /\ UNCHANGED otherStationVars

\* Variant: the command is dropped.
_send_command_dropped(written, command) == written

\* LC29HSerial._send_command: the command is written if the port is open.
\* written is the sequence of commands the device has received.
_send_command(written, command) ==
    IF serial_conn = "open" THEN Append(written, command) ELSE written

\* LC29HSerial.configure_base_mode: receiver mode, save, fixed position, save.
configure_base_mode(written) ==
    _send_command(_send_command(_send_command(_send_command(written,
        "PQTMCFGRCVRMODE"), "PQTMSAVEPAR"), "PQTMCFGSVIN"), "PQTMSAVEPAR")

\* LC29HSerial.enable_rtcm_output: MSM4, 1005, GGA, save.
enable_rtcm_output(written) ==
    _send_command(_send_command(_send_command(_send_command(written,
        "PAIR432"), "PAIR434"), "PAIR062"), "PQTMSAVEPAR")

\* RTKBaseStation.start: self.gps.configure_base_mode(...)
ConfigureBaseMode ==
    /\ spos = "connected"
    /\ hist' = [hist EXCEPT !.written = configure_base_mode(@)]
    /\ spos' = "based"
    /\ UNCHANGED <<serial_conn, gps_running, rpc, base_running>>
    /\ UNCHANGED otherStationVars

\* RTKBaseStation.start: self.gps.enable_rtcm_output(...)
EnableRtcmOutput ==
    /\ spos = "based"
    /\ hist' = [hist EXCEPT !.written = enable_rtcm_output(@)]
    /\ spos' = "configured"
    /\ UNCHANGED <<serial_conn, gps_running, rpc, base_running>>
    /\ UNCHANGED otherStationVars

\* RTKBaseStation.start: set_rtcm_callback and self.gps.start_reading()
StartReading ==
    /\ spos = "configured"
    /\ ~gps_running
    /\ gps_running' = TRUE
    /\ rpc' = "loop"
    /\ spos' = "reading"
    /\ UNCHANGED <<serial_conn, base_running, hist>>
    /\ UNCHANGED otherStationVars

\* RTKBaseStation.start: self.ntrip = NTRIPServer(...), add_mountpoint(...)
\* (authentication disabled in the configuration).
ConfigureNtrip ==
    /\ spos = "reading"
    /\ ntrip' = TRUE
    /\ mountpoints' = Append(mountpoints, MountpointInfo(T_BASE, require_auth))
    /\ spos' = "ntrip"
    /\ UNCHANGED <<serial_conn, gps_running, rpc, base_running, hist>>
    /\ UNCHANGED <<stream, noise, rtcm_buffer, nmea_buffer, dropped, stats, bcast_log,
                   require_auth, credentials, serverVars, connVars, castVars, bufferVars,
                   parserVars, statsVars, threadVars>>

\* Variant: False is returned at once when the NTRIP server does not start.
AfterBindFailureReturn == "false"

\* RTKBaseStation.start after self.ntrip.start() returned False: on to
\* self.gps.disconnect().
AfterBindFailure == "disconnect"

\* RTKBaseStation.start: self.ntrip.start().  Bound: NTRIPServer.start as in
\* Start, then self.running = True and True is returned.  Not bound (the
\* port is in use): the exception is caught before running is set and before
\* the accept worker is created.
NtripStart ==
    /\ spos = "ntrip"
    /\ \E bound \in BOOLEAN :
        IF bound
        THEN /\ listener' = "open"
             /\ running' = TRUE
             /\ apc' = "accepting"
             /\ base_running' = TRUE
             /\ spos' = "true"
        ELSE /\ spos' = AfterBindFailure
             /\ UNCHANGED <<listener, running, apc, base_running>>
    /\ UNCHANGED <<serial_conn, gps_running, rpc, hist, clients, clients_lock>>
    /\ UNCHANGED <<readerVars, configVars, connVars, castVars, bufferVars, parserVars,
                   statsVars, threadVars>>

\* LC29HSerial.disconnect -> stop_reading: self.running = False
Disconnect ==
    /\ spos = "disconnect"
    /\ gps_running' = FALSE
    /\ spos' = "join"
    /\ UNCHANGED <<serial_conn, rpc, base_running, hist>>
    /\ UNCHANGED otherStationVars

\* stop_reading: read_thread.join(timeout=2.0) returns, because the worker
\* has ended or because the two seconds are over; disconnect then closes the
\* device and start returns False.
Joined ==
    /\ spos = "join"
    /\ \E timeout \in BOOLEAN : ~timeout => rpc = "exited"
    /\ serial_conn' = IF serial_conn = "open" THEN "closed" ELSE serial_conn
    /\ spos' = "false"
    /\ UNCHANGED <<gps_running, rpc, base_running, hist>>
    /\ UNCHANGED otherStationVars

Accepted == Cardinality({c \in Conns : hpc[c] # "unborn"})

\* _read_loop: "while self.running and self.serial_conn and
\* self.serial_conn.is_open" is found false, the worker returns.
ReaderExit ==
    /\ rpc = "loop"
    /\ ~(gps_running /\ serial_conn = "open")
    /\ rpc' = "exited"
    /\ UNCHANGED <<spos, serial_conn, gps_running, base_running, hist>>
    /\ UNCHANGED otherStationVars

\* Variant: a SerialException is logged like any other exception.
AfterSerialExceptionContinue == "loop"

\* "except serial.SerialException: ... break"
AfterSerialException == "exited"

\* _read_loop: in_waiting or read raises serial.SerialException (the device
\* has been removed).
ReaderFatal ==
    /\ rpc = "loop"
    /\ gps_running /\ serial_conn = "open"
    /\ rpc' = AfterSerialException
    /\ hist' = [hist EXCEPT !.fatal_seen = Accepted]
    /\ UNCHANGED <<spos, serial_conn, gps_running, base_running>>
    /\ UNCHANGED otherStationVars

\* What the device delivers in one read while the station runs.
StationReads == {FrameEmpty, FrameBadCrc, <<0>>}

\* The callbacks of one loop iteration, and with them every broadcast_rtcm
\* call they make, run to their end before the iteration ends: the clients
\* whose send succeeds receive the frames broadcast, the others are removed
\* from the registry and closed by the first broadcast.
Iterated(rtcm, nmea, calls, data) ==
    LET hb == HandleCalls([log |-> bcast_log, stats |-> stats, dropped |-> dropped],
                          calls, 1)
        fresh == SubSeq(hb.log, Len(bcast_log) + 1, Len(hb.log))
        member(c) == \E k \in 1..Len(clients) : clients[k] = c
        reached(c) == member(c) /\ peer[c] = "open" /\ sock[c] = "open"
    IN  /\ clients_lock = "free"
        /\ rtcm_buffer' = rtcm
        /\ nmea_buffer' = nmea
        /\ bcast_log' = hb.log
        /\ stats' = hb.stats
        /\ dropped' = hb.dropped
        /\ stream' = stream \o data
        /\ noise' = IF Len(data) = 1 THEN noise + 1 ELSE noise
        /\ clients' = IF fresh = <<>> THEN clients ELSE SelectSeq(clients, reached)
        /\ wire' = [c \in Conns |->
                      IF reached(c)
                      THEN wire[c] \o [k \in 1..Len(fresh) |->
                                          [kind |-> "rtcm", bytes |-> fresh[k]]]
                      ELSE wire[c]]
        /\ sock' = [c \in Conns |->
                      IF fresh # <<>> /\ member(c) /\ ~reached(c)
                      THEN "closed" ELSE sock[c]]
        /\ UNCHANGED <<ntrip, running, listener, apc, clients_lock, hpc, creq, peer,
                       client_mp, joined, configVars, castVars, bufferVars, parserVars, statsVars, threadVars>>

\* One iteration of _read_loop that runs to its end.
ReaderRead ==
    /\ rpc = "loop"
    /\ gps_running /\ serial_conn = "open"
    /\ \E data \in StationReads :
        /\ Len(stream) + Len(data) <= MaxStream
        /\ Len(data) = 1 => noise < MaxNoise
        /\ \E st \in {ReadBytes([rtcm |-> rtcm_buffer, nmea |-> nmea_buffer,
                                 calls |-> <<>>], data, 1)} :
            /\ Iterated(st.rtcm, st.nmea, st.calls, data)
            /\ hist' = IF \E k \in 1..Len(st.calls) : ~validate_message(st.calls[k])
                       THEN [hist EXCEPT !.bad = @ + 1, !.bad_log = Len(bcast_log')]
                       ELSE hist
    /\ UNCHANGED <<spos, serial_conn, gps_running, rpc, base_running>>

\* Variant: any exception ends the loop.
AfterExceptionBreak == "exited"

\* "except Exception as e: logger.error(...)": the while loop goes on.
AfterException == "loop"

\* One iteration of _read_loop in which the callback reached at byte j of the
\* read raises an exception other than SerialException: the statements after
\* the _process_rtcm call are not executed (the buffer is neither restarted
\* nor cleared) and the rest of the read is not looked at.
ReaderRaise ==
    /\ rpc = "loop"
    /\ gps_running /\ serial_conn = "open"
    /\ \E data \in StationReads :
        /\ Len(stream) + Len(data) <= MaxStream
        /\ Len(data) = 1 => noise < MaxNoise
        /\ \E j \in 1..Len(data) :
            LET st1 == ReadBytes([rtcm |-> rtcm_buffer, nmea |-> nmea_buffer,
                                  calls |-> <<>>], SubSeq(data, 1, j - 1), 1)
                st2 == ReadByte(st1, data[j])
            IN  /\ Len(st2.calls) > Len(st1.calls)
                /\ _process_rtcm(st2.calls[Len(st2.calls)])
                /\ Iterated(IF data[j] = Preamble THEN st1.rtcm
                            ELSE Append(st1.rtcm, data[j]),
                            st1.nmea, st1.calls, data)
                /\ hist' = [hist EXCEPT !.errors = @ + 1, !.error_log = Len(bcast_log')]
    /\ rpc' = AfterException
    /\ UNCHANGED <<spos, serial_conn, gps_running, base_running>>

\* Variant: the worker returns when nothing is waiting.
AfterIdleReturn == "exited"

\* "if self.serial_conn.in_waiting > 0" is false: time.sleep(0.01) and on to
\* the next loop test.
AfterIdle == "loop"

\* One iteration of _read_loop that finds no bytes waiting.
ReaderIdle ==
    /\ rpc = "loop"
    /\ gps_running /\ serial_conn = "open"
    /\ hist.idle < MaxIdle
    /\ rpc' = AfterIdle
    /\ hist' = [hist EXCEPT !.idle = @ + 1]
    /\ UNCHANGED <<spos, serial_conn, gps_running, base_running>>
    /\ UNCHANGED otherStationVars

StationSession(c) ==
    Accept(c) \/ PeerGone(c) \/ HandleClient(c, FanoutRequests) \/ Register(c)

StationNext ==
    \/ Connect \/ StartReading \/ ConfigureNtrip \/ NtripStart \/ Disconnect \/ Joined
    \/ ConfigureBaseMode \/ EnableRtcmOutput
    \/ ReaderExit \/ ReaderFatal \/ ReaderRead \/ ReaderRaise \/ ReaderIdle
    \/ StationSession(1)

\* The station from its construction on, until stop() is called, with one
\* client connecting.
StationSpec == Init /\ [][StationNext]_vars

(***************************************************************************)
(* LC29HSerial on its own: start_reading() and stop_reading() called in   *)
(* any order by one thread, with every worker they create.                 *)
(***************************************************************************)

otherThreadVars ==
    <<spos, rpc, base_running, hist, stream, noise, rtcm_buffer, nmea_buffer, dropped,
      stats, bcast_log, ntrip, configVars, serverVars, connVars, castVars, bufferVars,
      parserVars, statsVars>>

\* Workers that have not left _read_loop.
Alive == {w \in Workers : workers[w] \in {"loop", "busy"}}

\* LC29HSerial.start_reading(): "if self.running: warn, return"; otherwise
\* running = True and a new thread is created, stored and started.
StartReadingCall ==
    /\ caller = "idle"
    /\ ncalls < MaxCalls
    /\ ncalls' = ncalls + 1
    /\ IF gps_running
       THEN UNCHANGED <<gps_running, workers, read_thread>>
       ELSE /\ read_thread < MaxWorkers
            /\ gps_running' = TRUE
            /\ read_thread' = read_thread + 1
            /\ workers' = [workers EXCEPT ![read_thread + 1] = "loop"]
    /\ UNCHANGED <<caller, serial_conn>>
    /\ UNCHANGED otherThreadVars

\* LC29HSerial.stop_reading(): "if self.running: self.running = False" and,
\* if a thread was ever created, the join on it begins.
StopReadingCall ==
    /\ caller = "idle"
    /\ ncalls < MaxCalls
    /\ ncalls' = ncalls + 1
    /\ IF gps_running
       THEN /\ gps_running' = FALSE
            /\ caller' = IF read_thread # 0 THEN "join" ELSE "idle"
       ELSE UNCHANGED <<gps_running, caller>>
    /\ UNCHANGED <<workers, read_thread, serial_conn>>
    /\ UNCHANGED otherThreadVars

\* stop_reading: self.read_thread.join(timeout=2.0) returns, because the
\* thread has ended or because the two seconds are over; they can be over
\* only while the thread is in an iteration (a send to a stalled subscriber
\* ends with the socket's timeout of 10 s), the loop test itself is prompt.
StopReadingJoined ==
    /\ caller = "join"
    /\ \E timeout \in BOOLEAN :
          IF timeout THEN workers[read_thread] = "busy"
          ELSE workers[read_thread] \in {"exited", "fatal"}
    /\ caller' = "idle"
    /\ UNCHANGED <<workers, read_thread, ncalls, gps_running, serial_conn>>
    /\ UNCHANGED otherThreadVars

\* _read_loop: "while self.running and self.serial_conn and
\* self.serial_conn.is_open", by worker w.
WorkerTest(w) ==
    /\ workers[w] = "loop"
    /\ workers' = [workers EXCEPT ![w] =
                      IF gps_running /\ serial_conn = "open" THEN "busy" ELSE "exited"]
    /\ UNCHANGED <<read_thread, caller, ncalls, gps_running, serial_conn>>
    /\ UNCHANGED otherThreadVars

\* _read_loop: worker w's iteration ends (the bytes waiting are read and
\* processed, an exception other than SerialException is logged) and the
\* next loop test follows.
WorkerIterate(w) ==
    /\ workers[w] = "busy"
    /\ workers' = [workers EXCEPT ![w] = "loop"]
    /\ UNCHANGED <<read_thread, caller, ncalls, gps_running, serial_conn>>
    /\ UNCHANGED otherThreadVars

\* _read_loop: worker w's iteration raises serial.SerialException: the error
\* is logged and "break" leaves the loop; self.running is not touched.
WorkerFatal(w) ==
    /\ workers[w] = "busy"
    /\ workers' = [workers EXCEPT ![w] = "fatal"]
    /\ UNCHANGED <<read_thread, caller, ncalls, gps_running, serial_conn>>
    /\ UNCHANGED otherThreadVars

ThreadNext ==
    \/ Connect
    \/ StartReadingCall \/ StopReadingCall \/ StopReadingJoined
    \/ \E w \in Workers : WorkerTest(w) \/ WorkerIterate(w) \/ WorkerFatal(w)

\* A serial port object, connect() called at some time, and start_reading()
\* and stop_reading() called in any order.
ThreadSpec == Init /\ [][ThreadNext]_vars

\* The same with the reader worker scheduled: an iteration ends (the read
\* does not block, a send ends with the socket's timeout at the latest) and
\* the loop test that follows is made.
FairStationSpec == StationSpec /\ WF_vars(ReaderExit)

(***************************************************************************)
(* Properties of the reader path                                           *)
(***************************************************************************)
\* C1: every byte string handed to broadcast_rtcm by the reader path starts
\* with 0xD3, has length payload_len + 6 and carries the CRC24Q of all its
\* preceding bytes as its 3-byte trailer.
C1_BroadcastFramesValid ==
    \A k \in 1..Len(bcast_log) : RefValidFrame(bcast_log[k])

\* C1 witness: two frames have been broadcast after a candidate was rejected.
C1_Witness ==
    /\ Len(bcast_log) = 2
    /\ Len(stream) > Len(bcast_log[1]) + Len(bcast_log[2])

\* C2: the frames passed to broadcast are exactly, and in order, the frames a
\* reference scanner finds in the stream read so far (compared whenever the
\* scanner is not waiting for the rest of a candidate, and no frame was
\* discarded for want of a server object).
C2_ReaderMatchesReference ==
    LET ref == RefFrames(stream)
    IN  (~ref.pending /\ dropped = 0) => bcast_log = ref.frames


\* S holds a valid frame somewhere: at some preamble, the bytes the length
\* field calls for are there and carry their CRC.
ContainsValidFrame(S) ==
    \E i \in 1..Len(S) :
        /\ S[i] = Preamble
        /\ i + 2 <= Len(S)
        /\ i + RefPayloadLen(SubSeq(S, i, i + 2)) + 5 <= Len(S)
        /\ RefValidFrame(SubSeq(S, i, i + RefPayloadLen(SubSeq(S, i, i + 2)) + 5))

\* The longest frame a 10-bit length field allows: 1023 + 6 = 1029 bytes.
LongestFrame == (3 * 256 + 255) + 6

\* C18: between bytes, rtcm_buffer is shorter than the frame its length field
\* declares, hence never longer than 1029 bytes; and when the input holds no
\* valid frame nothing has been passed to broadcast_rtcm.
C18_BufferBoundedNothingFromNoise ==
    /\ Len(rtcm_buffer) <= LongestFrame
    /\ Len(rtcm_buffer) >= 3 =>
          /\ Len(rtcm_buffer) < MsgLen(rtcm_buffer) + 6
          /\ MsgLen(rtcm_buffer) + 6 <= LongestFrame
    /\ ~ContainsValidFrame(stream) =>
          bcast_log = <<>> /\ stats.rtcm_messages = 0 /\ dropped = 0

\* With the server there, a complete candidate with a wrong CRC has gone by,
\* the input holds no valid frame, and a new candidate is being accumulated.
C18_Witness ==
    /\ ntrip
    /\ \E i \in 1..Len(stream) :
          i + 5 <= Len(stream) /\ SubSeq(stream, i, i + 5) = FrameBadCrc
    /\ ~ContainsValidFrame(stream)
    /\ Len(rtcm_buffer) >= 3

\* C19: a valid frame that is the whole input is emitted whole (it reaches
\* _handle_rtcm_data as one valid frame), also when its length, payload or
\* CRC bytes contain 0xD3.
C19_InnerPreambleIsContent ==
    \A F \in FrameReads :
        (RefValidFrame(F) /\ stream = F) =>
            /\ Len(bcast_log) + dropped = 1
            /\ ntrip => bcast_log = <<F>>

(***************************************************************************)
(* Session handling: the outcome of one connection                         *)
(***************************************************************************)
Listed(seq, c) == \E k \in 1..Len(seq) : seq[k] = c

\* The handler of c has received a request and acted on it.
Handled(c) == hpc[c] \in {"admit", "done"} /\ creq[c] # NoRequest

\* A GET with a three-token request line.
FullGet(r) == r.method = "GET" /\ r.version

RequestedName(r) == SubSeq(PathText(r.path), 2, Len(PathText(r.path)))

MountpointRegistered(name) == \E k \in 1..Len(mountpoints) : mountpoints[k].name = name

\* r asks for a mountpoint that is registered.
ForRegistered(r) == r.path \in {"base", "alt"} /\ MountpointRegistered(RequestedName(r))

\* r carries Authorization: Basic base64(user:pass) with user mapped to pass.
ValidBasic(r) == r.auth.kind = "basic" /\ <<r.auth.user, r.auth.pass>> \in credentials

\* What c got back, when it was there to get it: one response and no more.
Answered(c, ok(_)) ==
    /\ Len(wire[c]) <= 1
    /\ peer[c] = "open" => Len(wire[c]) = 1
    /\ Len(wire[c]) = 1 => wire[c][1].kind = "response" /\ ok(wire[c][1].lines)

StatusLine(lines, code) ==
    /\ Len(lines[1]) = 3
    /\ lines[1][1] = "HTTP/1.1"
    /\ lines[1][2] = code

HasLine(lines, text) == \E k \in 2..Len(lines) : lines[k] = <<text>>

\* c was turned away: closed, its handler over, not in the registry.
TurnedAway(c) == sock[c] = "closed" /\ hpc[c] = "done" /\ ~Listed(clients, c)

\* c was admitted: open, and in the registry once its handler is over.
Admitted(c) == sock[c] = "open" /\ (hpc[c] = "done" => Listed(clients, c))

IsOk(lines) ==
    /\ StatusLine(lines, "200") /\ lines[1][3] = "OK"
    /\ HasLine(lines, "Content-Type: gnss/data")

IsUnauthorized(lines) ==
    /\ StatusLine(lines, "401") /\ lines[1][3] = "Unauthorized"
    /\ HasLine(lines, "WWW-Authenticate: Basic realm=\"NTRIP\"")

IsNotFound(lines) == StatusLine(lines, "404")

LinesOf(lines, tag) == {k \in 1..Len(lines) : lines[k] # <<>> /\ lines[k][1] = tag}

IsSourcetable(lines) ==
    /\ lines[1] = <<"SOURCETABLE 200 OK">>
    /\ Cardinality(LinesOf(lines, "CAS")) = 1
    /\ Cardinality(LinesOf(lines, "STR")) = Len(mountpoints)
    /\ \A m \in 1..Len(mountpoints) :
          Cardinality({k \in LinesOf(lines, "STR") : lines[k][2] = mountpoints[m].name}) = 1
    /\ lines[Len(lines)] = <<"ENDSOURCETABLE">>

\* C7: with authentication required, a GET for a registered mountpoint that
\* carries Authorization: Basic base64(user:pass), user mapped to pass in the
\* credential table, is answered 200 OK with Content-Type: gnss/data, and the
\* connection is left open and added to the registry.
C7_ValidBasicAdmitted ==
    \A c \in Conns :
        (/\ Handled(c) /\ require_auth
         /\ FullGet(creq[c]) /\ creq[c].term
         /\ ForRegistered(creq[c]) /\ ValidBasic(creq[c]))
        => Admitted(c) /\ Answered(c, IsOk)

\* The same for requests whose lines end in \r\n.
ValidBasicAdmittedCrLf ==
    \A c \in Conns :
        (/\ Handled(c) /\ require_auth
         /\ FullGet(creq[c]) /\ creq[c].term /\ creq[c].eol = "crlf"
         /\ ForRegistered(creq[c]) /\ ValidBasic(creq[c]))
        => Admitted(c) /\ Answered(c, IsOk)

C9_UnknownMountpointNotFound ==
    \A c \in Conns :
        (/\ Handled(c)
         /\ FullGet(creq[c])
         /\ creq[c].path \in {"base", "alt", "nope", "prefix"}
         /\ ~MountpointRegistered(RequestedName(creq[c])))
        => TurnedAway(c) /\ Answered(c, IsNotFound)

\* With authentication required, a request without credentials for a path
\* that is a prefix of a registered name was answered 404.
C9_Witness ==
    \E c \in Conns :
        /\ Handled(c) /\ require_auth /\ FullGet(creq[c])
        /\ creq[c].path = "prefix" /\ creq[c].auth.kind = "none"
        /\ MountpointRegistered(T_BASE)
        /\ peer[c] = "open" /\ Len(wire[c]) = 1 /\ IsNotFound(wire[c][1].lines)

\* C10: a GET for "/" is answered with the source table: SOURCETABLE 200 OK
\* first, exactly one CAS line, exactly one STR line per registered
\* mountpoint, ENDSOURCETABLE last; the connection is closed and never
\* registered, with or without authentication.
C10_RootGetsSourcetable ==
    \A c \in Conns :
        (Handled(c) /\ FullGet(creq[c]) /\ creq[c].path = "root")
        => TurnedAway(c) /\ Answered(c, IsSourcetable)

\* With authentication required and two mountpoints, a request for "/" without
\* credentials was answered with the source table.
C10_Witness ==
    \E c \in Conns :
        /\ Handled(c) /\ FullGet(creq[c]) /\ creq[c].path = "root"
        /\ creq[c].auth.kind = "none" /\ require_auth /\ Len(mountpoints) = 2
        /\ peer[c] = "open" /\ Len(wire[c]) = 1 /\ IsSourcetable(wire[c][1].lines)

IsBadRequest(lines) == StatusLine(lines, "400") /\ lines[1][3] = "Bad Request"

\* C11: after any set_authentication and add_mountpoint calls, require_auth
\* is true exactly when the credential table is non-empty; with an empty
\* table every GET for a registered mountpoint is admitted whatever
\* Authorization it carries, and with a non-empty table one without an
\* Authorization header is turned away with 401.
C11_AuthIffCredentials ==
    /\ require_auth <=> credentials # {}
    /\ \A c \in Conns :
          (Handled(c) /\ FullGet(creq[c]) /\ ForRegistered(creq[c])) =>
              /\ credentials = {} => Admitted(c) /\ Answered(c, IsOk)
              /\ (credentials # {} /\ creq[c].auth.kind = "none") =>
                    TurnedAway(c) /\ Answered(c, IsUnauthorized)

\* With an empty table, a request without an Authorization header was
\* admitted and is registered.
C11_Witness ==
    \E c \in Conns :
        /\ credentials = {} /\ Handled(c) /\ FullGet(creq[c]) /\ ForRegistered(creq[c])
        /\ creq[c].auth.kind = "none"
        /\ Listed(clients, c) /\ peer[c] = "open" /\ Len(wire[c]) = 1
        /\ IsOk(wire[c][1].lines)

\* C12: a non-empty request whose request line has fewer than three tokens,
\* or whose method is not GET, is answered 400 Bad Request, closed and never
\* registered, whatever its path.
C12_MalformedBadRequest ==
    \A c \in Conns :
        (Handled(c) /\ (~creq[c].version \/ creq[c].method # "GET"))
        => TurnedAway(c) /\ Answered(c, IsBadRequest)

\* The same for requests whose lines end in \r\n.
MalformedBadRequestCrLf ==
    \A c \in Conns :
        (Handled(c) /\ creq[c].eol = "crlf" /\ (~creq[c].version \/ creq[c].method # "GET"))
        => TurnedAway(c) /\ Answered(c, IsBadRequest)

\* C13: a request that ends before a blank line closes its header block is
\* answered 400 Bad Request and not admitted, also when its request line is a
\* GET for a registered mountpoint.
C13_UnterminatedBadRequest ==
    \A c \in Conns :
        (Handled(c) /\ ~creq[c].term) => TurnedAway(c) /\ Answered(c, IsBadRequest)

\* What a handler decided: the status line it sends and whether it admits.
Disposition(out) == <<out.resp[1], out.admit>>

\* C14: a request with bare \n line endings receives the status and the
\* admission or rejection of the same request with \r\n line endings.
C14_BareLfSameDisposition ==
    \A c \in Conns :
        (Handled(c) /\ creq[c].eol = "lf") =>
            LET twin == [creq[c] EXCEPT !.eol = "crlf"]
                want == Disposition(_handle_client(Render(twin), mountpoints,
                                                   require_auth, credentials))
            IN  /\ (hpc[c] = "admit" \/ Listed(clients, c)) = want[2]
                /\ Len(wire[c]) = 1 => wire[c][1].lines[1] = want[1]

(***************************************************************************)
(* Fan-out: what broadcast_rtcm writes to the subscribers                  *)
(***************************************************************************)
\* The frame parts written to c, in the order written.
Chunks(c) == SelectSeq(wire[c], LAMBDA m : m.kind = "rtcm")

\* The frames written whole to c, in the order written.
Frames(c) ==
    LET whole == SelectSeq(Chunks(c), LAMBDA m : m.part = Len(FrameParts))
    IN  [k \in 1..Len(whole) |-> whole[k].f]

\* The last thing written to c is the whole of frame f.
EndsWithFrame(c, f) ==
    LET w == wire[c]
        n == Len(w)
        np == Len(FrameParts)
    IN  /\ n >= np
        /\ \A q \in 1..np :
              /\ w[n - np + q].kind = "rtcm"
              /\ w[n - np + q].f = f
              /\ w[n - np + q].part = q

IsSuffix(s, t) == Len(s) <= Len(t) /\ SubSeq(t, Len(t) - Len(s) + 1, Len(t)) = s

\* The parts written to c are in emission order: frame by frame, part by part.
InEmissionOrder(c) ==
    LET ch == Chunks(c)
    IN  \A i, j \in 1..Len(ch) :
           i < j => \/ ch[i].f < ch[j].f
                    \/ (ch[i].f = ch[j].f /\ ch[i].part < ch[j].part)

\* While t is inside a call for frame f: the subscribers it has passed have
\* the whole of f as the last thing written to them, and those still ahead
\* have nothing of f or of any later frame but the parts being written.
FrameToAllBeforeNext(t) ==
    bpc[t] = "send" =>
        \A k \in 1..Len(clients) :
            LET c == clients[k]
            IN  /\ (k < bidx[t] /\ ~Listed(bdisc[t], c)) => EndsWithFrame(c, bframe[t])
                /\ k >= bidx[t] =>
                      \A i \in 1..Len(Chunks(c)) :
                          \/ Chunks(c)[i].f < bframe[t]
                          \/ /\ k = bidx[t]
                             /\ Chunks(c)[i].f = bframe[t]
                             /\ Chunks(c)[i].part < bpart[t]

\* C3: the frames written to a subscriber are in the order the reader emitted
\* them; a frame is sent to every current subscriber before the next frame is
\* sent to any; and between calls, of two registered subscribers one has
\* received exactly the most recent frames of the other.
C3_OrderedAndShared ==
    /\ \A c \in Conns : InEmissionOrder(c)
    /\ FrameToAllBeforeNext("reader")
    /\ bpc["reader"] # "send" =>
          \A a, b \in Conns :
              (Listed(clients, a) /\ Listed(clients, b)) =>
                  IsSuffix(Frames(a), Frames(b)) \/ IsSuffix(Frames(b), Frames(a))

\* Two registered subscribers, one with two frames and one that joined in
\* time for the second.
C3_Witness ==
    \E a, b \in Conns :
        /\ a # b /\ Listed(clients, a) /\ Listed(clients, b)
        /\ Frames(a) = <<1, 2>> /\ Frames(b) = <<2>>

\* C4: when a call of broadcast_rtcm returns, every subscriber that was
\* registered during it and whose send did not fail has the whole frame as
\* the last thing written to it and is still registered, whatever happened
\* to the others.
C4_FailureIsolated ==
    [][\A t \in Broadcasters :
          (bpc[t] = "send" /\ bpc'[t] = "idle") =>
              \A k \in 1..Len(clients) :
                  ~Listed(bdisc[t], clients[k]) =>
                      /\ EndsWithFrame(clients[k], bframe[t])
                      /\ Listed(clients', clients[k])]_vars

\* A call about to return in which the send to an earlier subscriber failed
\* and a later subscriber received the whole frame.
C4_Witness ==
    \E t \in Broadcasters :
        /\ bpc[t] = "send" /\ bidx[t] > Len(clients)
        /\ \E i, j \in 1..Len(clients) :
              /\ i < j
              /\ Listed(bdisc[t], clients[i])
              /\ ~Listed(bdisc[t], clients[j])
              /\ EndsWithFrame(clients[j], bframe[t])

\* C5: a subscriber whose send has failed is in the registry no longer than
\* the call in which it failed, and nothing is written to its connection from
\* then on.
C5_FailedSubscriberRemoved ==
    [][\A c \in failed' :
          /\ c \in failed => wire'[c] = wire[c]
          /\ Listed(clients', c) =>
                \E t \in Broadcasters : bpc'[t] = "send" /\ Listed(bdisc'[t], c)]_vars

\* A subscriber that is still there, whose send of frame 1 failed half way,
\* and another subscriber that has since received frame 2.
C5_Witness ==
    \E c, b \in Conns :
        /\ c \in failed /\ peer[c] = "open" /\ ~Listed(clients, c)
        /\ Len(Chunks(c)) = 1 /\ Chunks(c)[1].f = 1
        /\ Listed(clients, b) /\ EndsWithFrame(b, 2)

\* C6: in what is written to a connection, the parts of a frame follow each
\* other with nothing in between (a frame may stop short only as the last
\* thing written), and no response is written after a frame part.
C6_FrameContiguous ==
    \A c \in Conns :
        \A i \in 1..Len(wire[c]) :
            LET w == wire[c]
            IN  IF w[i].kind = "rtcm" THEN
                    /\ w[i].part > 1 =>
                          /\ i > 1
                          /\ w[i - 1].kind = "rtcm"
                          /\ w[i - 1].f = w[i].f
                          /\ w[i - 1].part = w[i].part - 1
                    /\ (w[i].part < Len(FrameParts) /\ i < Len(w)) =>
                          /\ w[i + 1].kind = "rtcm"
                          /\ w[i + 1].f = w[i].f
                          /\ w[i + 1].part = w[i].part + 1
                ELSE \A j \in 1..(i - 1) : w[j].kind # "rtcm"

\* A connection that received its response and then two whole frames from two
\* callers that were inside broadcast_rtcm at the same time.
C6_Witness ==
    \E c \in Conns :
        /\ Len(wire[c]) = 1 + 2 * Len(FrameParts)
        /\ wire[c][1].kind = "response"
        /\ wire[c][2].kind = "rtcm" /\ wire[c][Len(wire[c])].kind = "rtcm"
        /\ wire[c][2].by # wire[c][Len(wire[c])].by
        /\ wire[c][2].f > wire[c][Len(wire[c])].f

\* The last thing in w, what has been written to a connection, is the whole
\* of frame f.
WireEndsWithFrame(w, f) ==
    /\ Len(w) >= Len(FrameParts)
    /\ \A q \in 1..Len(FrameParts) :
          LET m == w[Len(w) - Len(FrameParts) + q]
          IN  m.kind = "rtcm" /\ m.f = f /\ m.part = q

\* C15: the loop of broadcast_rtcm moves past a registered subscriber only
\* when the whole frame has been written to it or its send has failed,
\* whatever mountpoint it was admitted on: no subscriber is skipped.
C15_NoSubscriberSkipped ==
    [][\A t \in Broadcasters :
          (bpc[t] = "send" /\ bidx'[t] > bidx[t]) =>
              \/ Listed(bdisc'[t], clients[bidx[t]])
              \/ WireEndsWithFrame(wire'[clients[bidx[t]]], bframe[t])]_vars

\* Two registered subscribers admitted on different mountpoints, each with
\* the whole of frame 1 as the last thing written to it.
C15_Witness ==
    \E a, b \in Conns :
        /\ Listed(clients, a) /\ Listed(clients, b)
        /\ client_mp[a] = T_BASE /\ client_mp[b] = T_ALT
        /\ EndsWithFrame(a, 1) /\ EndsWithFrame(b, 1)

(***************************************************************************)
(* Properties of RTCMMessageBuffer                                         *)
(***************************************************************************)
\* Every frame the buffer has produced so far, in order.
Produced == got \o messages

\* A fresh buffer fed S one byte at a time.
RECURSIVE FeedBytesFrom(_, _, _)
FeedBytesFrom(b, S, i) ==
    IF i > Len(S) THEN b
    ELSE Strict(LAMBDA nx : FeedBytesFrom(nx, S, i + 1), add_data(b, <<S[i]>>))

FeedBytes(S) == FeedBytesFrom([buffer |-> <<>>, messages |-> <<>>], S, 1)

\* C16: once every byte of S has been given to add_data, in whatever chunks,
\* the frames obtained are those S yields when fed one byte at a time.
C16_ChunkingIrrelevant ==
    nfed = Len(arrived) => Produced = FeedBytes(arrived).messages

\* Two frames arrived back to back and every byte has been given to add_data
\* (in one chunk, byte by byte, or cut anywhere): both frames were obtained.
C16_Witness ==
    /\ nfed = Len(arrived)
    /\ Len(Produced) = 2
    /\ got = <<>>
    /\ buffer = <<>>
    /\ Len(arrived) = Len(Produced[1]) + Len(Produced[2])

\* S read as text (bytes below 0x80) with valid frames in it: ok is FALSE
\* when S is anything else.
RECURSIVE TextAndFrames(_, _, _)
TextAndFrames(S, i, acc) ==
    IF i > Len(S) THEN acc
    ELSE IF S[i] < 128 THEN TextAndFrames(S, i + 1, acc)
    ELSE IF /\ S[i] = Preamble
            /\ i + 2 <= Len(S)
            /\ i + RefPayloadLen(SubSeq(S, i, i + 2)) + 5 <= Len(S)
            /\ RefValidFrame(SubSeq(S, i, i + RefPayloadLen(SubSeq(S, i, i + 2)) + 5))
    THEN LET f == SubSeq(S, i, i + RefPayloadLen(SubSeq(S, i, i + 2)) + 5)
         IN  TextAndFrames(S, i + Len(f), [acc EXCEPT !.frames = Append(@, f)])
    ELSE [acc EXCEPT !.ok = FALSE]

\* C17: when the input is valid frames with text before, between and after
\* them, the frames obtained are exactly those frames, in stream order.
C17_FramesAmongText ==
    LET tf == TextAndFrames(arrived, 1, [ok |-> TRUE, frames |-> <<>>])
    IN  (nfed = Len(arrived) /\ tf.ok) => Produced = tf.frames

\* Text, a frame, text, a frame: both frames obtained, the first of them
\* already fetched by get_messages.
C17_Witness ==
    LET tf == TextAndFrames(arrived, 1, [ok |-> TRUE, frames |-> <<>>])
    IN  /\ nfed = Len(arrived) /\ tf.ok
        /\ Len(tf.frames) = 2
        /\ arrived[1] < 128
        /\ arrived[Len(tf.frames[1]) + 2] < 128
        /\ Len(arrived) = Len(tf.frames[1]) + Len(tf.frames[2]) + 2
        /\ Len(got) = 1 /\ Len(messages) = 1

\* C20: a complete candidate that fails validation costs its first byte only:
\* once the whole input has been given to add_data and no candidate is left
\* waiting for bytes, the frames obtained are those of a scan that resumes
\* one byte after a failed preamble.
C20_FailedCandidateRewinds ==
    LET ref == RefFrames(arrived)
    IN  (nfed = Len(arrived) /\ ~ref.pending) => Produced = ref.frames

(***************************************************************************)
(* Properties of RTCM3Parser                                               *)
(***************************************************************************)
\* C21: for every byte sequence _calc_crc24q returns the CRC24Q remainder
\* (generator 0x1864CFB, zero initial value, most significant bit first, no
\* final XOR): a function of the bytes alone, 0 for the empty sequence and
\* always within 0 .. 2^24 - 1.
C21_CalcIsCrc24q ==
    pchecked =>
        /\ pcrc = RefCrc24q(pdata)
        /\ pcrc \in 0..(Crc24qTop - 1)
        /\ pdata = <<>> => pcrc = 0

\* The CRC of a full-length frame body (3 header bytes and 1023 payload bytes).
C21_Witness ==
    /\ pchecked
    /\ Len(pdata) = 1026
    /\ pcrc = RefCrc24q(pdata)
    /\ pcrc # 0

\* C22: validate_message accepts exactly the byte strings of at least 6 bytes
\* that start with 0xD3, are payload_len + 6 bytes long (payload_len from the
\* low two bits of the second byte and the third byte, reserved bits ignored)
\* and end with the CRC24Q of everything before the trailer.
C22_ValidIffWellFormed ==
    pchecked => (pvalid <=> RefValidFrame(pdata))

\* An accepted frame of the longest payload, reserved bits set.
C22_Witness ==
    /\ pchecked
    /\ pvalid
    /\ Len(pdata) = 1029
    /\ pdata[2] = 255

(***************************************************************************)
(* Properties of the server's life cycle and of the lock                   *)
(***************************************************************************)
\* C23: once NTRIPServer.stop() has returned the registry is empty and stays
\* empty, and no connection of a subscriber is left open: a handler still in
\* flight registers nothing afterwards.
C23_StoppedRegistryEmpty ==
    spc = "done" =>
        /\ clients = <<>>
        /\ \A c \in Conns : hpc[c] = "done" /\ Admitted(c) => sock[c] # "open"

\* C24: a subscriber whose peer has closed the connection is eventually
\* removed from the registry.  (Stated for a peer that closes while the
\* reader could still broadcast a frame, so that it is not the end of the
\* input that keeps the subscriber.)
C24_ClosedPeerRemoved ==
    \A c \in Conns :
        (Listed(clients, c) /\ peer[c] = "gone" /\ emitted < MaxFrames)
            ~> ~Listed(clients, c)

\* C25: once a read has raised SerialException the reader worker has ended
\* and no further frame is broadcast, while the NTRIP server goes on as it
\* was: still running, its listener open, its accept worker accepting, every
\* subscriber kept.
C25_FatalReadEndsReaderOnly ==
    [][hist.fatal_seen # -1 =>
          /\ rpc = "exited" /\ rpc' = "exited"
          /\ bcast_log' = bcast_log
          /\ \A c \in Conns : Listed(clients, c) => Listed(clients', c)
          /\ running => (running' /\ listener' = "open" /\ apc' = "accepting")]_vars

\* A client accepted, answered 200 and registered after the reader ended.
C25_Witness ==
    /\ hist.fatal_seen = 0
    /\ rpc = "exited"
    /\ running /\ base_running
    /\ Listed(clients, 1)
    /\ peer[1] = "open"
    /\ Answered(1, IsOk)

C27_FailedStartLeavesNothing ==
    spos = "false" =>
        /\ ~running /\ apc = "none" /\ listener # "open"
        /\ ~base_running
        /\ ~gps_running
        /\ serial_conn # "open"
        /\ ntrip => serial_conn = "closed"

\* The listener failed to bind after the reader had read from the device.
C27_Witness ==
    /\ spos = "false"
    /\ ntrip
    /\ serial_conn = "closed"
    /\ rpc = "exited"
    /\ stream # <<>>

\* C28: while a broadcast_rtcm call is in progress no handler can register a
\* new subscriber, but a get_stats() call can take its snapshot and return
\* without waiting for the broadcast to end.
C28_StatsDuringBroadcast ==
    \A t \in Broadcasters :
        bpc[t] = "send" =>
            /\ \A c \in Conns : ~ENABLED Register(c)
            /\ gpc = "wait" => ENABLED GetStatsReturn

\* C29: the subscriber list changes only in a step of a thread that holds
\* clients_lock: a handler's append or stop's clear, which take the free lock
\* and release it, or the end of a broadcast, which removes the failed
\* subscribers after its loop over the list and then releases the lock.  The
\* list does not change while a broadcast iterates over it.
C29_MutationsUnderLock ==
    [][clients' # clients =>
          \/ /\ clients_lock = "free" /\ clients_lock' = "free"
             /\ \A t \in Broadcasters : bpc[t] # "send"
          \/ \E t \in Broadcasters :
                /\ clients_lock = t /\ bpc[t] = "send"
                /\ bidx[t] > Len(clients)
                /\ bpc'[t] = "idle" /\ clients_lock' = "free"]_vars

\* A subscriber was appended, removed by a broadcast after a failed send, and
\* stop() has cleared the list.
C29_Witness ==
    /\ spc = "done"
    /\ hpc[1] = "done"
    /\ 1 \in failed
    /\ ~Listed(clients, 1)
    /\ sock[1] = "closed"

\* The broadcast_rtcm calls that have returned so far.
Finished == emitted - Cardinality({t \in Broadcasters : bpc[t] \in {"wait", "send"}})

\* C30: a subscriber receives nothing of a frame whose broadcast had taken
\* the lock when it was registered (a registration attempted meanwhile waits
\* for the lock), its RTCM data begins with the first part of a frame, and
\* while it stays registered with no failed send it has received the whole of
\* every frame broadcast since.
C30_JoinsAtFrameBoundary ==
    \A c \in Conns :
        joined[c] # -1 =>
            /\ \A i \in 1..Len(Chunks(c)) : Chunks(c)[i].f > joined[c]
            /\ Chunks(c) # <<>> => Chunks(c)[1].part = 1
            /\ (Listed(clients, c) /\ c \notin failed) =>
                  \A f \in (joined[c] + 1)..Finished :
                      \E k \in 1..Len(Frames(c)) : Frames(c)[k] = f

\* Subscriber 2 was registered after the broadcast of frame 1 and has the
\* whole of frame 2 and nothing else; subscriber 1 has both frames.
C30_Witness ==
    /\ joined[1] = 0 /\ Frames(1) = <<1, 2>>
    /\ joined[2] = 1 /\ Frames(2) = <<2>>
    /\ Len(Chunks(2)) = Len(FrameParts)

(***************************************************************************)
(* Properties of admission and rejection                                   *)
(***************************************************************************)
\* C31: a registered connection whose peer is there has the whole 200
\* response as the first thing written to it, and on every connection that
\* carries RTCM data the response comes first and everything after it is
\* RTCM data: no frame part precedes the response or is mixed into it.
C31_ResponseBeforeFrames ==
    \A c \in Conns :
        /\ (Listed(clients, c) /\ peer[c] = "open") =>
              /\ Len(wire[c]) >= 1
              /\ wire[c][1].kind = "response"
              /\ IsOk(wire[c][1].lines)
        /\ Chunks(c) # <<>> =>
              /\ wire[c][1].kind = "response"
              /\ IsOk(wire[c][1].lines)
              /\ \A i \in 2..Len(wire[c]) : wire[c][i].kind = "rtcm"

\* A connection with its response followed by two whole frames.
C31_Witness ==
    /\ Len(wire[1]) = 1 + 2 * Len(FrameParts)
    /\ wire[1][1].kind = "response"
    /\ Frames(1) = <<1, 2>>

\* The first line of a response the handler sends when it turns a client away.
IsStatus(lines) ==
    \/ lines[1] = <<"SOURCETABLE 200 OK">>
    \/ \E code \in {"400", "401", "404"} : StatusLine(lines, code)

RECURSIVE TotalLen(_, _)
TotalLen(frames, k) == IF k = 0 THEN 0 ELSE Len(frames[k]) + TotalLen(frames, k - 1)

\* C33: the two counters never decrease; rtcm_messages counts the frames
\* handed to broadcast_rtcm and bytes_broadcast adds up their lengths, each
\* of them a valid frame; in a step that hands no frame to broadcast_rtcm
\* the counters and the RTCM data written to every subscriber stay as they
\* are, and a subscriber is only ever written frames that were broadcast.
C33_CountersFollowBroadcasts ==
    /\ [](/\ stats.rtcm_messages = Len(bcast_log)
          /\ stats.bytes_broadcast = TotalLen(bcast_log, Len(bcast_log))
          /\ \A k \in 1..Len(bcast_log) : RefValidFrame(bcast_log[k])
          /\ \A c \in Conns : \A i \in 1..Len(Chunks(c)) :
                \E k \in 1..Len(bcast_log) : bcast_log[k] = Chunks(c)[i].bytes)
    /\ [][/\ stats'.rtcm_messages >= stats.rtcm_messages
          /\ stats'.bytes_broadcast >= stats.bytes_broadcast
          /\ bcast_log' = bcast_log =>
                (stats' = stats /\ \A c \in Conns : Chunks(c)' = Chunks(c))]_vars

\* A valid frame was counted and written to the subscriber, and an iteration
\* has dropped an invalid candidate.
C33_Witness ==
    /\ stats.rtcm_messages >= 1
    /\ stats.bytes_broadcast = 6 * stats.rtcm_messages
    /\ hist.bad >= 1
    /\ Chunks(1) # <<>>

\* C34: once stop_reading() has set running to False a worker in its loop
\* eventually leaves it, a worker that has left broadcasts no further frame,
\* and an iteration that finds no bytes waiting leaves the worker in its loop.
C34_StopEndsReaderIdleDoesNot ==
    /\ (~gps_running /\ rpc = "loop") ~> (rpc = "exited")
    /\ [][rpc = "exited" => (rpc' = "exited" /\ bcast_log' = bcast_log)]_vars
    /\ [][hist'.idle > hist.idle => (rpc' = "loop" /\ gps_running')]_vars

\* stop_reading() ended a worker that had found nothing waiting and had then
\* read bytes.
C34_Witness ==
    /\ ~gps_running
    /\ rpc = "exited"
    /\ hist.fatal_seen = -1
    /\ hist.idle >= 1
    /\ stream # <<>>

\* C35: when the reader worker exists the device has received the four
\* commands of configure_base_mode and the four of enable_rtcm_output, in
\* that order, and nothing is written to the device from then on.
C35_ConfiguredBeforeReading ==
    /\ [](rpc # "none" =>
            hist.written = <<"PQTMCFGRCVRMODE", "PQTMSAVEPAR", "PQTMCFGSVIN",
                             "PQTMSAVEPAR", "PAIR432", "PAIR434", "PAIR062",
                             "PQTMSAVEPAR">>)
    /\ [][rpc # "none" => hist'.written = hist.written]_vars

\* The reader runs on a configured device and has read bytes; the station
\* has started.
C35_Witness ==
    /\ rpc = "loop"
    /\ hist.written # <<>>
    /\ stream # <<>>
    /\ spos = "true"

(***************************************************************************)
(* Properties of the registry's removals                                   *)
(***************************************************************************)

\* C36: a subscriber that leaves the registry, by a failed send of
\* broadcast_rtcm or by stop(), has its connection closed in the same step,
\* and a connection that was in the registry and no longer is, is closed.
C36_RemovedIsClosed ==
    /\ [](\A c \in Conns :
            (joined[c] # -1 /\ ~Listed(clients, c)) => sock[c] = "closed")
    /\ [][\A c \in Conns :
            (Listed(clients, c) /\ ~Listed(clients', c)) => sock'[c] = "closed"]_vars

\* A broadcast removed a subscriber while the server was running, and its
\* connection is closed.
C36_Witness ==
    /\ running
    /\ spc = "idle"
    /\ \E c \in Conns : joined[c] # -1 /\ ~Listed(clients, c) /\ sock[c] = "closed"

(***************************************************************************)
(* Properties of start_reading() and stop_reading()                        *)
(***************************************************************************)

\* C37: whatever start_reading() and stop_reading() calls are made, at most
\* one reader worker is in _read_loop at any time.
C37_OneReaderAlive ==
    Cardinality(Alive) <= 1

\* C38: once the worker created last has left its loop by the SerialException
\* break the running flag is False, and a start_reading() call made then
\* creates a new worker.
C38_FatalExitAllowsRestart ==
    /\ []((read_thread # 0 /\ workers[read_thread] = "fatal") => ~gps_running)
    /\ [][(/\ read_thread # 0
           /\ workers[read_thread] = "fatal"
           /\ ncalls' > ncalls
           /\ gps_running') => read_thread' # read_thread]_vars

(***************************************************************************)
(* Properties of the source table's authentication field                   *)
(***************************************************************************)

\* C39: in every source table sent, the authentication field of each STR line
\* is "B" if a request for a mountpoint requires credentials and "N" if it
\* does not, in whatever order add_mountpoint and set_authentication were
\* called before.
C39_AuthFieldMatchesRequirement ==
    \A c \in Conns : \A i \in 1..Len(wire[c]) :
        (wire[c][i].kind = "response" /\ IsSourcetable(wire[c][i].lines)) =>
            \A k \in 1..Len(wire[c][i].lines) :
                LET line == wire[c][i].lines[k] IN
                    (line # <<>> /\ line[1] = "STR") =>
                        line[16] = IF require_auth THEN "B" ELSE "N"

(***************************************************************************)
(* Properties of the reader's buffers                                      *)
(***************************************************************************)

\* The longest frame the length field can declare: 3 + 1023 + 3 bytes.
MaxFrameLen == 1023 + 6

\* C40: between iterations rtcm_buffer and nmea_buffer together hold no more
\* than a fixed number of bytes, the length of the longest frame, however
\* long the input is.
C40_BufferedBytesBounded ==
    Len(rtcm_buffer) + Len(nmea_buffer) <= MaxFrameLen
====
